---- MODULE Spec2Model ----
(***************************************************************************)
(* Model of the esp-hal I2C master driver (src/esp-hal/src/i2c).           *)
(*                                                                         *)
(* Spec      : the transaction sequencer.  One public transfer call        *)
(*             (write, read, write_read, transaction; blocking or async)   *)
(*             runs from the idle driver.  Each step is one physical       *)
(*             operation (write_operation, read_operation): the             *)
(*             registers are programmed as the code programs them, and the *)
(*             controller's answer is a nondeterministic input.            *)
(* WaitSpec  : one suspend-based wait (I2cFuture) interleaved with the     *)
(*             controller raising flags and with the interrupt handler.    *)
(* PollSpec  : one blocking physical operation, loop iteration by loop     *)
(*             iteration, against a controller that may be wedged.         *)
(* SessionSpec, QueueSpec, ConfigSpec : public calls one after the other,  *)
(*             add_cmd on one command queue, new / apply_config.           *)
(* ProgramSpec : the encoders setup_write / setup_read and                 *)
(*             start_write_operation / start_read_operation.               *)
(* FaultSpec : PollSpec's driver against a controller that raises flags    *)
(*             and finishes commands one by one, in any combination.       *)
(* StreamSpec : one write, byte by byte through the transmit FIFO.         *)
(* RecoverSpec : new / apply_config with transfers that fail and recover.  *)
(* StartSpec : start_write_operation / start_read_operation one after the  *)
(*             other, the controller taking the transmission starts.       *)
(***************************************************************************)
EXTENDS Integers, Sequences, FiniteSets, TLC

VARIABLES
    variant,    \* the chip the crate is built for (cfg(esp32), cfg(esp32s2), ...)
    regs,       \* the register block: comd slots, FIFOs, int_raw, ctr.trans_start
    pc,         \* position of the public call: "idle", "run", "done", "hung"
    call,       \* the public call in progress
    pi,         \* number of physical operations of the call already executed
    bus,        \* history: the physical operations whose transmission was started
    result,     \* what the public call returned ("None" while it runs)
    firstErr,   \* history: the error of the first failing physical operation
    hwFault,    \* history: the controller answered an operation with something but completion
    fut,        \* WaitSpec: the I2cFuture and its poll
    int_ena,    \* WaitSpec: the interrupt enable register
    irq,        \* WaitSpec: the interrupt handler / waker state
    poll        \* PollSpec, FaultSpec, StreamSpec: the operation and its loop state

seqVars  == <<pc, call, pi, bus, result, firstErr, hwFault>>
vars     == <<variant, regs, pc, call, pi, bus, result, firstErr, hwFault,
              fut, int_ena, irq, poll>>

----------------------------------------------------------------------------
(* Bounds of the model *)

\* longest operation list handed to transaction
MaxOps == 3
\* most chunks a single buffer of a direct write/read call is split into
MaxChunks == 3
\* iteration ceiling of the polled waits, scaled down from MAX_ITERATIONS = 1_000_000
MaxIterations == 3

----------------------------------------------------------------------------
(* Variants and program constants *)

Variants == {"esp32", "esp32s2", "esp32c3", "esp32s3"}

\* cfg(any(esp32, esp32s2))
FifoLimited(v) == v \in {"esp32", "esp32s2"}

I2C_CHUNK_SIZE(v) == IF FifoLimited(v) THEN 32 ELSE 254

\* number of command registers walked by comd_iter()
CmdSlots == 8

\* depth of the hardware transmit FIFO
TxFifoDepth == 32

Min(a, b) == IF a < b THEN a ELSE b

DivCeil(a, b) == (a + b - 1) \div b

\* the caller's write buffer: byte i (0-based) of every buffer
BufByte(i) == (7 * i + 3) % 256

----------------------------------------------------------------------------
(* Commands and the register block *)

CmdStart == [opcode |-> "RSTART", ack |-> FALSE, ack_check_en |-> FALSE,
             byte_num |-> 0, done |-> FALSE]
CmdStop  == [opcode |-> "STOP", ack |-> FALSE, ack_check_en |-> FALSE,
             byte_num |-> 0, done |-> FALSE]
CmdEnd   == [opcode |-> "END", ack |-> FALSE, ack_check_en |-> FALSE,
             byte_num |-> 0, done |-> FALSE]
\* Command::Write { ack_exp, ack_check_en, length }: ack is ack_exp == Ack::Nack
CmdWrite(nack_exp, check, length) ==
    [opcode |-> "WRITE", ack |-> nack_exp, ack_check_en |-> check,
     byte_num |-> length % 256, done |-> FALSE]
\* Command::Read { ack_value, length }: ack is ack_value == Ack::Nack
CmdRead(nack, length) ==
    [opcode |-> "READ", ack |-> nack, ack_check_en |-> FALSE,
     byte_num |-> length % 256, done |-> FALSE]

Flags == {"end_detect", "trans_complete", "time_out", "nack",
          "arbitration_lost", "txfifo_wm", "txfifo_ovf"}
FaultFlags == {"time_out", "nack", "arbitration_lost"}

\* comd holds the occupied command slots in order; the slots after them are empty
\* resp_rec is sr.resp_rec, txfifo_raddr is fifo_st.txfifo_raddr
ResetRegs == [comd |-> <<>>, txfifo |-> <<>>, rxfifo |-> <<>>, int_raw |-> {},
              trans_start |-> FALSE, resp_rec |-> FALSE, txfifo_raddr |-> 0]

OkR(r)     == [err |-> "Ok", regs |-> r]
ErrR(e, r) == [err |-> e, regs |-> r]

\* the ? operator on a Result: an error is returned as it is, otherwise the
\* code after it runs on the registers
Try(a, F(_)) == IF a.err # "Ok" THEN a ELSE F(a.regs)

\* a value bound once and used by the code that follows
With(x, F(_)) == F(x)

\* an add_cmd that reuses the last slot when the queue is full
AddCmdOverwriting(r, command) ==
    IF Len(r.comd) >= CmdSlots
    THEN OkR([r EXCEPT !.comd[CmdSlots] = command])
    ELSE OkR([r EXCEPT !.comd = Append(@, command)])

\* add_cmd: the next free slot, or CommandNumberExceeded
AddCmd(r, command) ==
    IF Len(r.comd) >= CmdSlots
    THEN ErrR("CommandNumberExceeded", r)
    ELSE OkR([r EXCEPT !.comd = Append(@, command)])

WriteFifo(r, byte) == [r EXCEPT !.txfifo = Append(@, byte)]

\* an entry that leaves the pending flags alone
KeepInterrupts(r) == r

ClearAllInterrupts(r) == [r EXCEPT !.int_raw = {}]

\* FIFOs that are never cleared
FifoKept(v, r) == r

ResetFifo(v, r) ==
    [r EXCEPT !.txfifo = <<>>, !.rxfifo = <<>>, !.txfifo_raddr = 0,
              !.int_raw = IF v = "esp32" THEN @ ELSE @ \ {"txfifo_wm"}]

\* a command list that is never cleared
CommandListKept(r) == r

ResetCommandList(r) == [r EXCEPT !.comd = <<>>]

\* a reset that leaves the FIFOs alone
ResetKeepingFifo(v, r) == ResetCommandList(ClearAllInterrupts(r))

\* Driver::reset: int_clr <- I2C_LL_INTR_MASK, reset_fifo, reset_command_list
Reset(v, r) == ResetCommandList(ResetFifo(v, ClearAllInterrupts(r)))

StartTransmission(r) == [r EXCEPT !.trans_start = TRUE]

----------------------------------------------------------------------------
(* The encoders: setup_write, setup_read, fill_tx_fifo *)

\* an address byte with the address in its low bits
AddrByteRightAligned(addr, rw) == IF rw = 1 THEN (addr % 128) + 128 ELSE addr % 128

\* (addr << 1) | OperationType::Write / Read, on a u8
AddrByte(addr, rw) == ((addr * 2) % 256) + rw

\* the slice bytes[0..n] of the chunk that starts at offset off of the buffer
Slice(off, n) == [i \in 1..n |-> BufByte(off + i - 1)]

\* a limit that leaves no room for the address byte
SetupWriteMaxLenOfData(start) == 255

SetupWriteMaxLen(start) == IF start THEN 254 ELSE 255

\* a Write command that counts the data only
SetupWriteLenOfData(len, start) == len

\* write_len: the address byte is sent by the same Write command
SetupWriteLen(len, start) == IF start THEN len + 1 ELSE len

SetupWrite(r, addr, len, start) ==
    IF len > SetupWriteMaxLen(start) THEN ErrR("FifoExceeded", r)
    ELSE Try(IF SetupWriteLen(len, start) > 0
             THEN AddCmd(r, CmdWrite(FALSE, TRUE, SetupWriteLen(len, start)))
             ELSE OkR(r),
             LAMBDA a : OkR(IF start THEN WriteFifo(a, AddrByte(addr, 0)) ELSE a))

\* the two limits the other way round
SetupReadMaxLenSwapped(will_continue) == IF will_continue THEN 254 ELSE 255

SetupReadMaxLen(will_continue) == IF will_continue THEN 255 ELSE 254

\* a Read(ack) that always leaves the final byte out
SetupReadAllButLast(len, will_continue) == len - 1

SetupReadInitialLen(len, will_continue) == IF will_continue THEN len ELSE len - 1

SetupRead(r, addr, len, start, will_continue) ==
    IF len = 0 THEN ErrR("ZeroLengthInvalid", r)
    ELSE IF len > SetupReadMaxLen(will_continue) THEN ErrR("FifoExceeded", r)
    ELSE LET initial_len == SetupReadInitialLen(len, will_continue)
         IN  Try(IF start THEN AddCmd(r, CmdWrite(FALSE, TRUE, 1)) ELSE OkR(r),
             LAMBDA a :
             Try(IF initial_len > 0
                 THEN AddCmd(a, CmdRead(FALSE, initial_len)) ELSE OkR(a),
             LAMBDA b :
             Try(IF ~will_continue THEN AddCmd(b, CmdRead(TRUE, 1)) ELSE OkR(b),
             LAMBDA c :
             OkR(IF start THEN WriteFifo(c, AddrByte(addr, 1)) ELSE c))))

\* cfg(any(esp32, esp32s2)): the whole slice or FifoExceeded
FillTxFifoLimit == 31

\* fill_tx_fifo: [err, regs].  On the other variants bytes are pushed until
\* the FIFO reports an overflow; the overflowing byte is lost, the index backs
\* off by one and the overflow flag is cleared.
FillTxFifo(v, r, off, len) ==
    IF FifoLimited(v)
    THEN IF len > FillTxFifoLimit
         THEN ErrR("FifoExceeded", r)
         ELSE OkR([r EXCEPT !.txfifo = @ \o Slice(off, len)])
    ELSE OkR([r EXCEPT !.txfifo = @ \o Slice(off, Min(len, TxFifoDepth - Len(@))),
                       !.int_raw = @ \ {"txfifo_ovf"}])

----------------------------------------------------------------------------
(* Programming one physical operation *)

StopOrEnd(stop) == IF stop THEN CmdStop ELSE CmdEnd

\* start_write_operation: [err, regs]
StartWriteOperation(v, r, addr, off, len, start, stop) ==
    Try(OkR(ResetCommandList(ResetFifo(v, r))),
    LAMBDA r0 : Try(IF start THEN AddCmd(r0, CmdStart) ELSE OkR(r0),
    LAMBDA a  : Try(SetupWrite(a, addr, len, start),
    LAMBDA b  : Try(AddCmd(b, StopOrEnd(stop)),
    LAMBDA c  : Try(FillTxFifo(v, c, off, len),
    LAMBDA f  : OkR(StartTransmission(f)))))))

\* start_read_operation: [err, regs]
StartReadOperation(v, r, addr, len, start, stop, will_continue) ==
    Try(OkR(ResetCommandList(ResetFifo(v, r))),
    LAMBDA r0 : Try(IF start THEN AddCmd(r0, CmdStart) ELSE OkR(r0),
    LAMBDA a  : Try(SetupRead(a, addr, len, start, will_continue),
    LAMBDA b  : Try(AddCmd(b, StopOrEnd(stop)),
    LAMBDA c  : OkR(StartTransmission(c))))))

----------------------------------------------------------------------------
(* Fault classification and completion *)

EstimateAckFailedReason(v, r) ==
    IF v \in {"esp32", "esp32s2", "esp32c3"} THEN "Unknown"
    ELSE IF r.txfifo_raddr <= 1 THEN "Address" ELSE "Data"

AckFailed(reason) == "AcknowledgeCheckFailed(" \o reason \o ")"

\* a classification that looks at arbitration loss first
CheckErrorsArbitrationFirst(v, r) ==
    IF "arbitration_lost" \in r.int_raw THEN "ArbitrationLost"
    ELSE IF "time_out" \in r.int_raw THEN "Timeout"
    ELSE IF "nack" \in r.int_raw THEN "AcknowledgeCheckFailed(Unknown)"
    ELSE IF v # "esp32" /\ "trans_complete" \in r.int_raw /\ ~r.resp_rec
         THEN "AcknowledgeCheckFailed(Data)"
    ELSE "Ok"

\* a classification that knows the bus timeout only
CheckErrorsTimeoutOnly(v, r) ==
    IF "time_out" \in r.int_raw THEN "Timeout" ELSE "Ok"

\* the value Driver::check_errors returns
CheckErrors(v, r) ==
    IF "time_out" \in r.int_raw THEN "Timeout"
    ELSE IF "nack" \in r.int_raw THEN AckFailed(EstimateAckFailedReason(v, r))
    ELSE IF "arbitration_lost" \in r.int_raw THEN "ArbitrationLost"
    ELSE IF v # "esp32" /\ "trans_complete" \in r.int_raw /\ ~r.resp_rec
         THEN AckFailed("Data")
    ELSE "Ok"

\* the value I2cFuture::check_error returns (the future is cfg(not(esp32)))
FutureCheckError(v, r) ==
    IF "arbitration_lost" \in r.int_raw THEN "ArbitrationLost"
    ELSE IF "time_out" \in r.int_raw THEN "Timeout"
    ELSE IF "nack" \in r.int_raw THEN AckFailed(EstimateAckFailedReason(v, r))
    ELSE IF "trans_complete" \in r.int_raw /\ ~r.resp_rec THEN AckFailed("Data")
    ELSE "Ok"

\* a wait that either flag ends, whatever end_only is
CompletionSeenEither(int, end_only) ==
    "trans_complete" \in int \/ "end_detect" \in int

\* the break condition of the polled waits
CompletionSeen(int, end_only) ==
    (~end_only /\ "trans_complete" \in int) \/ "end_detect" \in int

\* a check that asks the done bit of the END slots as well
CheckAllCommandsDoneWithEnd(r) ==
    IF \E i \in 1..Len(r.comd) : ~r.comd[i].done
    THEN "ExecutionIncomplete" ELSE "Ok"

\* check_all_commands_done (an empty slot reads 0x0)
CheckAllCommandsDone(r) ==
    IF \E i \in 1..Len(r.comd) : r.comd[i].opcode # "END" /\ ~r.comd[i].done
    THEN "ExecutionIncomplete" ELSE "Ok"

\* an error path without recovery
NoRecover(v, r) == r

\* I2c::internal_recover: peripheral reset, then setup(&self.config), whose
\* last step is reset() (the stored configuration has passed setup before)
InternalRecover(v, r) == Reset(v, r)

----------------------------------------------------------------------------
(* The controller: what it may answer to a started physical operation *)

HwAnswers == {"complete", "time_out", "nack_addr", "nack_data",
              "arbitration_lost", "no_response", "not_done", "wedged", "stalled"}

CompletionFlag(stop) == IF stop THEN "trans_complete" ELSE "end_detect"

\* every command executed; on esp32 the END command keeps its done bit clear
AllDone(v, comd) ==
    [i \in 1..Len(comd) |->
        [comd[i] EXCEPT !.done = ~(v = "esp32" /\ comd[i].opcode = "END")]]

\* the registers as the driver finds them at the end of its waiting
Controller(v, r, ans, stop) ==
    CASE ans = "complete" ->
           [r EXCEPT !.comd = AllDone(v, @), !.txfifo = <<>>, !.rxfifo = <<>>,
                     !.trans_start = FALSE, !.resp_rec = TRUE,
                     !.txfifo_raddr = Len(r.txfifo),
                     !.int_raw = @ \cup {CompletionFlag(stop)}]
      [] ans = "not_done" ->
           [r EXCEPT !.trans_start = FALSE, !.resp_rec = TRUE,
                     !.int_raw = @ \cup {CompletionFlag(stop)}]
      [] ans = "time_out" -> [r EXCEPT !.int_raw = @ \cup {"time_out"}]
      [] ans = "nack_addr" ->
           [r EXCEPT !.int_raw = @ \cup {"nack"}, !.txfifo_raddr = 1]
      [] ans = "nack_data" ->
           [r EXCEPT !.int_raw = @ \cup {"nack"}, !.txfifo_raddr = 2]
      [] ans = "arbitration_lost" ->
           [r EXCEPT !.int_raw = @ \cup {"arbitration_lost"}]
      [] ans = "no_response" ->
           [r EXCEPT !.trans_start = FALSE, !.resp_rec = FALSE,
                     !.int_raw = @ \cup {"trans_complete"}]
      [] ans = "stalled" -> [r EXCEPT !.int_raw = @ \cup {"txfifo_wm"}]
      [] OTHER -> r

\* a wait that sees neither a fault nor completion: the polled waits give up
\* after MAX_ITERATIONS, the loops on the FIFO status and a pending I2cFuture
\* never do
NoAnswerResult(v, mode, kind, wm) ==
    IF mode = "blocking"
    THEN IF FifoLimited(v) THEN "Timeout"
         ELSE IF kind = "Write" /\ wm THEN "Timeout" ELSE "Hung"
    ELSE IF v = "esp32" THEN "Timeout" ELSE "Hung"

\* the rest of write_operation* / read_operation* after the transmission was
\* started: stream or drain the FIFO, wait for completion. [err, regs]
AwaitOperation(v, mode, kind, r, stop) ==
    With(IF mode = "async" /\ v # "esp32"
         THEN FutureCheckError(v, r) ELSE CheckErrors(v, r),
    LAMBDA e :
        IF e # "Ok"
        THEN ErrR(e, IF mode = "blocking" THEN Reset(v, r) ELSE r)
        ELSE IF CompletionSeen(r.int_raw, ~stop)
             THEN ErrR(CheckAllCommandsDone(r), r)
             ELSE ErrR(NoAnswerResult(v, mode, kind, "txfifo_wm" \in r.int_raw), r))

----------------------------------------------------------------------------
(* Chunking: Driver::write_blocking / read_blocking and Driver::write / read *)

\* one request for a physical operation: the slice [off, off + len) of the
\* buffer of operation opi, with the flags the chunk loop passes down
Req(kind, opi, off, len, start, stop, wc) ==
    [kind |-> kind, opi |-> opi, off |-> off, len |-> len,
     start |-> start, stop |-> stop, will_continue |-> wc]

\* a chunk loop that runs once on an empty buffer
ChunkCountAtLeastOne(v, len) == IF len = 0 THEN 1 ELSE DivCeil(len, I2C_CHUNK_SIZE(v))

ChunkCount(v, len) == DivCeil(len, I2C_CHUNK_SIZE(v))

\* buffer.chunks(I2C_CHUNK_SIZE): chunk idx (0-based) is [off, off + len)
ChunkOff(v, idx) == idx * I2C_CHUNK_SIZE(v)
ChunkLen(v, len, idx) == Min(I2C_CHUNK_SIZE(v), len - ChunkOff(v, idx))

\* a chunk loop that passes the caller's will_continue to every chunk
WillContinueOfCaller(will_continue, idx, chunk_count) == will_continue

ChunkStart(start, idx) == start /\ idx = 0
ChunkStop(stop, idx, chunk_count) == stop /\ idx = chunk_count - 1
ChunkWillContinue(will_continue, idx, chunk_count) ==
    will_continue \/ idx < chunk_count - 1

WriteBlocking(v, opi, len, start, stop) ==
    IF len = 0 THEN << Req("Write", opi, 0, 0, start, stop, FALSE) >>
    ELSE LET chunk_count == ChunkCount(v, len)
         IN  [k \in 1..chunk_count |->
                Req("Write", opi, ChunkOff(v, k - 1), ChunkLen(v, len, k - 1),
                    ChunkStart(start, k - 1), ChunkStop(stop, k - 1, chunk_count),
                    FALSE)]

ReadBlocking(v, opi, len, start, stop, will_continue) ==
    LET chunk_count == ChunkCount(v, len)
    IN  [k \in 1..chunk_count |->
           Req("Read", opi, ChunkOff(v, k - 1), ChunkLen(v, len, k - 1),
               ChunkStart(start, k - 1), ChunkStop(stop, k - 1, chunk_count),
               ChunkWillContinue(will_continue, k - 1, chunk_count))]

\* the async twins
WriteAsync(v, opi, len, start, stop) ==
    IF len = 0 THEN << Req("Write", opi, 0, 0, start, stop, FALSE) >>
    ELSE LET chunk_count == ChunkCount(v, len)
         IN  [k \in 1..chunk_count |->
                Req("Write", opi, ChunkOff(v, k - 1), ChunkLen(v, len, k - 1),
                    ChunkStart(start, k - 1), ChunkStop(stop, k - 1, chunk_count),
                    FALSE)]

ReadAsync(v, opi, len, start, stop, will_continue) ==
    LET chunk_count == ChunkCount(v, len)
    IN  [k \in 1..chunk_count |->
           Req("Read", opi, ChunkOff(v, k - 1), ChunkLen(v, len, k - 1),
               ChunkStart(start, k - 1), ChunkStop(stop, k - 1, chunk_count),
               ChunkWillContinue(will_continue, k - 1, chunk_count))]

----------------------------------------------------------------------------
(* The sequencer: I2cMaster::transaction_impl / transaction_impl_async *)

Op(kind, len) == [kind |-> kind, len |-> len]

\* a filter that keeps every operation
RetainAll(op) == TRUE

\* .filter(|op| op.is_write() || !op.is_empty())
Retained(op) == op.kind = "Write" \/ op.len # 0

\* a sequencer that starts every operation with a Start command
StartAlways(last_op, kind) == TRUE
\* a sequencer that ends every operation with a Stop command
StopAlways(next_op) == TRUE
\* a sequencer that never tells a read that another read follows
WillContinueNever(next_op) == FALSE
\* a sequencer that tells a read to go on whenever any operation follows
WillContinueUnlessLast(next_op) == next_op # "None"

\* !matches!(last_op, Some(kind))
StartFlag(last_op, kind) == last_op # kind
\* next_op.is_none()
StopFlag(next_op) == next_op = "None"
\* matches!(next_op, Some(OpKind::Read))
WillContinueFlag(next_op) == next_op = "Read"

\* op_iter.peek().map(|v| v.kind())
Peek(it) == IF Len(it) > 1 THEN it[2].kind ELSE "None"

RECURSIVE TransactionLoop(_, _, _, _)
\* the while loop over the filtered operations, it being what is left of
\* them, opi the position of its head, last_op the kind executed before
TransactionLoop(v, it, opi, last_op) ==
    IF it = <<>> THEN <<>>
    ELSE LET op == Head(it)
             next_op == Peek(it)
             these == IF op.kind = "Write"
                      THEN WriteBlocking(v, opi, op.len, StartFlag(last_op, "Write"),
                                         StopFlag(next_op))
                      ELSE ReadBlocking(v, opi, op.len, StartFlag(last_op, "Read"),
                                        StopFlag(next_op), WillContinueFlag(next_op))
         IN  these \o TransactionLoop(v, Tail(it), opi + 1, op.kind)

TransactionImpl(v, ops) == TransactionLoop(v, SelectSeq(ops, Retained), 1, "None")

RECURSIVE TransactionLoopAsync(_, _, _, _)
TransactionLoopAsync(v, it, opi, last_op) ==
    IF it = <<>> THEN <<>>
    ELSE LET op == Head(it)
             next_op == Peek(it)
             these == IF op.kind = "Write"
                      THEN WriteAsync(v, opi, op.len, StartFlag(last_op, "Write"),
                                      StopFlag(next_op))
                      ELSE ReadAsync(v, opi, op.len, StartFlag(last_op, "Read"),
                                     StopFlag(next_op), WillContinueFlag(next_op))
         IN  these \o TransactionLoopAsync(v, Tail(it), opi + 1, op.kind)

\* an async sequencer that keeps the empty reads
TransactionImplAsyncUnfiltered(v, ops) == TransactionLoopAsync(v, ops, 1, "None")

TransactionImplAsync(v, ops) ==
    TransactionLoopAsync(v, SelectSeq(ops, Retained), 1, "None")

\* a write phase that always ends the transaction
WriteReadStopAlways(read_len) == TRUE

\* write_read: the stop flag of the write phase, read_buffer.is_empty()
WriteReadStop(read_len) == read_len = 0

\* the requests a public call makes, in order, when none of them fails
Plan(v, c) ==
    CASE c.api = "write" ->
           IF c.mode = "blocking" THEN WriteBlocking(v, 1, c.ops[1].len, TRUE, TRUE)
           ELSE WriteAsync(v, 1, c.ops[1].len, TRUE, TRUE)
      [] c.api = "read" ->
           IF c.mode = "blocking"
           THEN ReadBlocking(v, 1, c.ops[1].len, TRUE, TRUE, FALSE)
           ELSE ReadAsync(v, 1, c.ops[1].len, TRUE, TRUE, FALSE)
      [] c.api = "write_read" ->
           IF c.mode = "blocking"
           THEN WriteBlocking(v, 1, c.ops[1].len, TRUE,
                              WriteReadStop(c.ops[2].len))
                \o ReadBlocking(v, 2, c.ops[2].len, TRUE, TRUE, FALSE)
           ELSE WriteAsync(v, 1, c.ops[1].len, TRUE,
                              WriteReadStop(c.ops[2].len))
                \o ReadAsync(v, 2, c.ops[2].len, TRUE, TRUE, FALSE)
      [] c.api = "transaction" ->
           IF c.mode = "blocking" THEN TransactionImpl(v, c.ops)
           ELSE TransactionImplAsync(v, c.ops)
      [] OTHER -> <<>>

\* a caller that ignores the result of a driver call
Ignored(res) == FALSE

\* the ? after each driver call: an error ends the public call
Propagates(res) == res # "Ok"

----------------------------------------------------------------------------
(* One physical operation: write_operation(_blocking) / read_operation(_blocking) *)

\* cfg(any(esp32, esp32s2)): read_all_from_fifo refuses a longer buffer
ReadAllFromFifoLimit == 32

\* [err, regs, started, prog]: the result, the registers afterwards, whether
\* start_transmission was reached and the registers as they were programmed
Outcome(w, started, prog) ==
    [err |-> w.err, regs |-> w.regs, started |-> started, prog |-> prog]

WriteOperation(v, mode, r, addr, req, ans) ==
    With(ClearAllInterrupts(r), LAMBDA r1 :
        IF req.len = 0 /\ ~req.start /\ ~req.stop
        THEN Outcome(OkR(r1), FALSE, r1)
        ELSE With(StartWriteOperation(v, r1, addr, req.off, req.len,
                                      req.start, req.stop),
             LAMBDA s :
                 IF s.err # "Ok"
                 THEN Outcome(s, FALSE, s.regs)
                 ELSE Outcome(AwaitOperation(v, mode, "Write",
                                  Controller(v, s.regs, ans, req.stop), req.stop),
                              TRUE, s.regs)))

ReadOperation(v, mode, r, addr, req, ans) ==
    With(ClearAllInterrupts(r), LAMBDA r1 :
        IF req.len = 0
        THEN Outcome(OkR(r1), FALSE, r1)
        ELSE With(StartReadOperation(v, r1, addr, req.len, req.start,
                                     req.stop, req.will_continue),
             LAMBDA s :
                 IF s.err # "Ok"
                 THEN Outcome(s, FALSE, s.regs)
                 ELSE IF FifoLimited(v) /\ req.len > ReadAllFromFifoLimit
                 THEN Outcome(ErrR("FifoExceeded", s.regs), TRUE, s.regs)
                 ELSE Outcome(AwaitOperation(v, mode, "Read",
                                  Controller(v, s.regs, ans, req.stop), req.stop),
                              TRUE, s.regs)))

Operation(v, mode, r, addr, req, ans) ==
    IF req.kind = "Write" THEN WriteOperation(v, mode, r, addr, req, ans)
    ELSE ReadOperation(v, mode, r, addr, req, ans)

----------------------------------------------------------------------------
(* Spec: one public transfer call *)

Modes == {"blocking", "async"}
Addrs == {50}

\* buffer lengths of the direct calls: around every chunk boundary
DirectLens(v) ==
    {0, 1, 2} \cup {k * I2C_CHUNK_SIZE(v) + d : k \in 1..(MaxChunks - 1), d \in {-1, 0, 1}}

\* buffer lengths inside operation lists: empty, one byte, and a full chunk
\* followed by a chunk of two bytes
OpLens(v) == {0, 1, I2C_CHUNK_SIZE(v) + 2}

OpLists(v) ==
    UNION {[1..n -> {Op(k, l) : k \in {"Write", "Read"}, l \in OpLens(v)}] : n \in 0..MaxOps}

NoCall == [api |-> "none", mode |-> "blocking", addr |-> 0, ops |-> <<>>,
           plan |-> <<>>]

\* the variants the sequencer is run on (esp32c3 differs from esp32s3 only in
\* estimate_ack_failed_reason)
SeqVariants == {"esp32", "esp32s2", "esp32s3"}

IdleWait == [pc |-> "none", event |-> "none", res |-> "None", seen |-> {}]
IdleIrq  == [woken |-> FALSE, registered |-> FALSE]
IdlePoll == [pc |-> "none", kind |-> "Write", stop |-> TRUE, hw |-> "responsive",
             tout |-> 0]

Init ==
    /\ variant \in SeqVariants
    /\ regs = ResetRegs
    /\ pc = "idle"
    /\ call = NoCall
    /\ pi = 0
    /\ bus = <<>>
    /\ result = "None"
    /\ firstErr = "None"
    /\ hwFault = FALSE
    /\ fut = IdleWait
    /\ int_ena = {}
    /\ irq = IdleIrq
    /\ poll = IdlePoll

Begin(c) ==
    /\ pc = "idle"
    /\ pc' = "run"
    /\ call' = [c EXCEPT !.plan = Plan(variant, c)]
    /\ UNCHANGED <<variant, regs, pi, bus, result, firstErr, hwFault, fut, int_ena, irq, poll>>

CallWrite ==
    \E m \in Modes, a \in Addrs, l \in DirectLens(variant) :
        Begin([api |-> "write", mode |-> m, addr |-> a, ops |-> <<Op("Write", l)>>, plan |-> <<>>])

CallRead ==
    \E m \in Modes, a \in Addrs, l \in DirectLens(variant) :
        Begin([api |-> "read", mode |-> m, addr |-> a, ops |-> <<Op("Read", l)>>, plan |-> <<>>])

CallWriteRead ==
    \E m \in Modes, a \in Addrs, wl \in OpLens(variant), rl \in OpLens(variant) :
        Begin([api |-> "write_read", mode |-> m, addr |-> a,
               ops |-> <<Op("Write", wl), Op("Read", rl)>>, plan |-> <<>>])

CallTransaction ==
    \E m \in Modes, a \in Addrs, ops \in OpLists(variant) :
        Begin([api |-> "transaction", mode |-> m, addr |-> a, ops |-> ops,
               plan |-> <<>>])

BusEntry(req, prog) == [req |-> req, comd |-> prog.comd, txfifo |-> prog.txfifo]

\* what one physical operation, requested by req, answered by the controller
\* with ans and ending as o, does to the call
Step(req, ans, o) ==
             /\ bus' = IF o.started THEN Append(bus, BusEntry(req, o.prog)) ELSE bus
             /\ hwFault' = (hwFault \/ (o.started /\ ans # "complete"))
             /\ firstErr' = IF firstErr = "None" /\ o.err \notin {"Ok", "Hung"}
                            THEN o.err ELSE firstErr
             /\ pi' = pi + 1
             /\ IF o.err = "Hung"
                THEN /\ pc' = "hung"
                     /\ regs' = o.regs
                     /\ result' = result
                ELSE IF Propagates(o.err)
                THEN /\ pc' = "done"
                     /\ regs' = InternalRecover(variant, o.regs)
                     /\ result' = o.err
                ELSE /\ pc' = "run"
                     /\ regs' = o.regs
                     /\ result' = result

\* the next physical operation of the call
PhysOp ==
    /\ pc = "run"
    /\ pi < Len(call.plan)
    /\ \E ans \in HwAnswers :
         Step(call.plan[pi + 1], ans,
              Operation(variant, call.mode, regs, call.addr, call.plan[pi + 1], ans))
    /\ UNCHANGED <<variant, call, fut, int_ena, irq, poll>>

\* every driver call of the public call returned Ok
Return ==
    /\ pc = "run"
    /\ pi = Len(call.plan)
    /\ pc' = "done"
    /\ result' = "Ok"
    /\ UNCHANGED <<variant, regs, call, pi, bus, firstErr, hwFault, fut, int_ena, irq, poll>>

Next == CallWrite \/ CallRead \/ CallWriteRead \/ CallTransaction \/ PhysOp \/ Return

Spec == Init /\ [][Next]_vars

----------------------------------------------------------------------------
(* What was put on the bus *)

\* the operations transaction_impl keeps
RetainedOps == SelectSeq(call.ops, Retained)

\* the operation a request belongs to: the direct calls pass their buffers
\* as they are, transaction numbers the retained ones
OpsOfCall == IF call.api = "transaction" THEN RetainedOps ELSE call.ops

IsTransaction == call.api = "transaction"
ReturnedOk == pc = "done" /\ result = "Ok"
ReturnedErr == pc = "done" /\ result \notin {"Ok", "None"}

CountOp(comd, opcode) == Cardinality({i \in 1..Len(comd) : comd[i].opcode = opcode})
HasStart(e) == CountOp(e.comd, "RSTART") > 0
HasNack(e) == \E i \in 1..Len(e.comd) : e.comd[i].opcode = "READ" /\ e.comd[i].ack
LastCmd(e) == e.comd[Len(e.comd)]
IsLastChunk(e) == e.req.off + e.req.len = OpsOfCall[e.req.opi].len

RECURSIVE SumOver(_, _)
SumOver(f, n) == IF n = 0 THEN 0 ELSE f[n] + SumOver(f, n - 1)

StartsOnBus == SumOver([i \in 1..Len(bus) |-> CountOp(bus[i].comd, "RSTART")], Len(bus))
StopsOnBus  == SumOver([i \in 1..Len(bus) |-> CountOp(bus[i].comd, "STOP")], Len(bus))

\* operation k is the first one or its kind differs from the one before it
KindChanges(k) == k = 1 \/ OpsOfCall[k].kind # OpsOfCall[k - 1].kind

RwBit(kind) == IF kind = "Write" THEN 0 ELSE 1

----------------------------------------------------------------------------
(* C1 *)

\* C1 as stated: in a transaction a physical operation carries a Start
\* command if and only if it belongs to the first retained operation or to
\* one whose kind differs from the kind of the retained operation before it.
C1_AsStated ==
    IsTransaction =>
        \A i \in 1..Len(bus) : HasStart(bus[i]) <=> KindChanges(bus[i].req.opi)

\* C1: in a transaction a physical operation carries the start flag (a Start
\* command first, then the Write command of the address byte, the address
\* byte first in the transmit FIFO) if and only if it is the first chunk of
\* the first retained operation or of one whose kind differs from the kind of
\* the retained operation before it; no other physical operation holds a
\* Start command, and a completed transaction [Write(a), Write(b)] has put
\* exactly one Start on the bus.
C1_StartOnKindChange ==
    IsTransaction =>
        /\ \A i \in 1..Len(bus) :
              LET e == bus[i] IN
              /\ e.req.start <=> (e.req.off = 0 /\ KindChanges(e.req.opi))
              /\ HasStart(e) <=> e.req.start
              /\ CountOp(e.comd, "RSTART") <= 1
              /\ HasStart(e) =>
                    /\ e.comd[1] = CmdStart
                    /\ e.comd[2].opcode = "WRITE"
                    /\ e.txfifo[1] = AddrByte(call.addr, RwBit(e.req.kind))
        /\ (ReturnedOk /\ Len(call.ops) = 2
              /\ call.ops[1].kind = "Write" /\ call.ops[2].kind = "Write")
             => StartsOnBus = 1

\* a completed transaction with two adjacent retained operations of one kind
\* and a chunk that is not the first of its operation
C1_Witness ==
    /\ IsTransaction /\ ReturnedOk
    /\ \E k \in 2..Len(RetainedOps) : ~KindChanges(k)
    /\ \E i \in 1..Len(bus) : bus[i].req.off > 0 /\ KindChanges(bus[i].req.opi)

----------------------------------------------------------------------------
(* C2 *)

\* C2: a transaction with at least one retained operation that returned Ok
\* has put exactly one Stop command on the bus; it is the last command of the
\* last physical operation, which is the last chunk of the last retained
\* operation, and every other physical operation ends with an End command.
C2_OneStopAtEnd ==
    (IsTransaction /\ ReturnedOk /\ RetainedOps # <<>>) =>
        /\ bus # <<>>
        /\ StopsOnBus = 1
        /\ LastCmd(bus[Len(bus)]) = CmdStop
        /\ bus[Len(bus)].req.opi = Len(RetainedOps)
        /\ IsLastChunk(bus[Len(bus)])
        /\ \A i \in 1..(Len(bus) - 1) : LastCmd(bus[i]) = CmdEnd

\* a completed transaction of three physical operations or more
C2_Witness ==
    IsTransaction /\ ReturnedOk /\ Len(RetainedOps) >= 2 /\ Len(bus) >= 3

----------------------------------------------------------------------------
(* C3, C4 *)

\* the commands of the physical operations of operation k, in bus order,
\* without the End commands that separate physical operations
RECURSIVE CmdsOfOp(_, _)
CmdsOfOp(k, n) ==
    IF n = 0 THEN <<>>
    ELSE CmdsOfOp(k, n - 1) \o
         (IF bus[n].req.opi = k
          THEN SelectSeq(bus[n].comd, LAMBDA c : c.opcode # "END") ELSE <<>>)

\* adjacent Write commands, and adjacent Read commands of one ack value, seen
\* as one command over the sum of their bytes, done bits left aside
RECURSIVE Joined(_)
Joined(cs) ==
    IF cs = <<>> THEN <<>>
    ELSE LET c == [Head(cs) EXCEPT !.done = FALSE]
             rest == Joined(Tail(cs))
         IN  IF rest # <<>> /\ c.opcode \in {"WRITE", "READ"}
                /\ rest[1].opcode = c.opcode /\ rest[1].ack = c.ack
             THEN <<[c EXCEPT !.byte_num = @ + rest[1].byte_num]>> \o Tail(rest)
             ELSE <<c>> \o rest

\* n bytes written, n bytes read with ACK (n may exceed one command)
Written(n) == [CmdWrite(FALSE, TRUE, 1) EXCEPT !.byte_num = n]
ReadAcked(n) == [CmdRead(FALSE, 1) EXCEPT !.byte_num = n]

NextKind(k) == IF k < Len(OpsOfCall) THEN OpsOfCall[k + 1].kind ELSE "None"

\* C3: in a transaction the last chunk of a Read operation is executed with
\* will_continue = true if and only if the next retained operation is a Read,
\* and a chunk holds a Read(nack) command if and only if its will_continue is
\* false; a completed transaction [Write(w), Read(r1), Read(r2)] with r1 and
\* r2 not empty has put on the bus, in this order: Start, Write of the address
\* byte and w; Start, Write of the address byte, Read(ack) of r1 bytes;
\* Read(ack) of r2 - 1 bytes, Read(nack) of one byte, Stop.
C3_WillContinueIffNextRead ==
    IsTransaction =>
        /\ \A i \in 1..Len(bus) :
              LET e == bus[i] IN
              e.req.kind = "Read" =>
                /\ IsLastChunk(e) =>
                     (e.req.will_continue <=> NextKind(e.req.opi) = "Read")
                /\ HasNack(e) <=> ~e.req.will_continue
        /\ (ReturnedOk /\ Len(call.ops) = 3
              /\ call.ops[1].kind = "Write" /\ call.ops[2].kind = "Read"
              /\ call.ops[3].kind = "Read"
              /\ call.ops[2].len > 0 /\ call.ops[3].len > 0)
             => /\ Joined(CmdsOfOp(1, Len(bus)))
                     = <<CmdStart, Written(call.ops[1].len + 1)>>
                /\ Joined(CmdsOfOp(2, Len(bus)))
                     = <<CmdStart, Written(1), ReadAcked(call.ops[2].len)>>
                /\ Joined(CmdsOfOp(3, Len(bus)))
                     = (IF call.ops[3].len > 1
                        THEN <<ReadAcked(call.ops[3].len - 1)>> ELSE <<>>)
                       \o <<CmdRead(TRUE, 1), CmdStop>>
                /\ \A i \in 1..(Len(bus) - 1) : bus[i].req.opi <= bus[i + 1].req.opi

\* a completed transaction [Write(w), Read(r1), Read(r2)], r2 read in chunks
C3_Witness ==
    /\ IsTransaction /\ ReturnedOk /\ Len(call.ops) = 3
    /\ call.ops[1].kind = "Write" /\ call.ops[1].len > 0
    /\ call.ops[2].kind = "Read" /\ call.ops[2].len > 0
    /\ call.ops[3].kind = "Read" /\ call.ops[3].len > I2C_CHUNK_SIZE(variant)

\* C4 as stated: a Read(nack) command is emitted only for the last byte of
\* the whole transaction: no physical operation of a read that is followed by
\* another retained operation holds one, and a completed transaction whose
\* last retained operation is a Read ends with Read(nack) of one byte, Stop.
C4_AsStated ==
    IsTransaction =>
        /\ \A i \in 1..Len(bus) :
              HasNack(bus[i]) => bus[i].req.opi = Len(RetainedOps)
        /\ (ReturnedOk /\ RetainedOps # <<>>
              /\ RetainedOps[Len(RetainedOps)].kind = "Read")
             => LET e == bus[Len(bus)]
                IN  Len(e.comd) >= 2 /\ e.comd[Len(e.comd) - 1].opcode = "READ"
                    /\ e.comd[Len(e.comd) - 1].ack
                    /\ e.comd[Len(e.comd) - 1].byte_num = 1

\* C4: a Read(nack) command is emitted only for the last byte of a retained
\* read that is not followed by another retained Read: it is one byte long,
\* the last command before the Stop or End of the last chunk of such a read;
\* a read followed by a Read has no byte NACKed, a read followed by a Write
\* and the read that ends the transaction have their last byte NACKed.
C4_NackOnlyBeforeNonRead ==
    IsTransaction =>
        /\ \A i \in 1..Len(bus) :
              LET e == bus[i] IN
              /\ HasNack(e) <=> (e.req.kind = "Read" /\ IsLastChunk(e)
                                  /\ NextKind(e.req.opi) # "Read")
              /\ \A j \in 1..Len(e.comd) :
                    (e.comd[j].opcode = "READ" /\ e.comd[j].ack)
                       => e.comd[j].byte_num = 1 /\ j = Len(e.comd) - 1

\* a completed transaction in which a read is followed by a write
C4_Witness ==
    /\ IsTransaction /\ ReturnedOk
    /\ \E k \in 1..(Len(RetainedOps) - 1) :
          RetainedOps[k].kind = "Read" /\ RetainedOps[k + 1].kind = "Write"
    /\ \E i \in 1..Len(bus) : HasNack(bus[i]) /\ bus[i].req.opi < Len(RetainedOps)

----------------------------------------------------------------------------
(* C5, C6 *)

IsDirect == call.api \in {"write", "read"}

\* C5 as stated: a direct read or write of a buffer of length L greater than
\* the chunk size C that the controller completed every time is executed as
\* exactly ceil(L/C) physical operations over the consecutive slices of C
\* bytes of the buffer, in order; only the first carries start and only the
\* last carries stop.
C5_AsStated ==
    (IsDirect /\ pc = "done" /\ ~hwFault
       /\ call.ops[1].len > I2C_CHUNK_SIZE(variant)) =>
        LET L == call.ops[1].len
            C == I2C_CHUNK_SIZE(variant)
        IN  /\ Len(bus) = DivCeil(L, C)
            /\ \A i \in 1..Len(bus) :
                  /\ bus[i].req.off = (i - 1) * C
                  /\ bus[i].req.len = Min(C, L - (i - 1) * C)
                  /\ bus[i].req.start <=> i = 1
                  /\ bus[i].req.stop <=> i = Len(bus)

\* the commands READ of operation k over all its physical operations
ReadCmdsOfOp(k) == SelectSeq(CmdsOfOp(k, Len(bus)), LAMBDA c : c.opcode = "READ")

BytesRead(k) ==
    SumOver([j \in 1..Len(ReadCmdsOfOp(k)) |-> ReadCmdsOfOp(k)[j].byte_num],
            Len(ReadCmdsOfOp(k)))

\* the will_continue the caller of read_blocking / read passes
CallerWillContinue(k) == IsTransaction /\ NextKind(k) = "Read"

\* C6: of the physical operations of a read, every one but the last chunk is
\* executed with will_continue = true, holds no Read(nack) command and ends
\* with End; the last chunk is executed with the caller's will_continue; a
\* Read(nack) command is one byte long and the last one before the Stop or
\* End; when the call returned Ok the byte counts of the Read commands of
\* every read add up to the length of its buffer.
C6_ChunkedReadAcks ==
    /\ \A i \in 1..Len(bus) :
          LET e == bus[i] IN
          e.req.kind = "Read" =>
            /\ ~IsLastChunk(e) =>
                 e.req.will_continue /\ ~HasNack(e) /\ LastCmd(e) = CmdEnd
            /\ IsLastChunk(e) =>
                 (e.req.will_continue <=> CallerWillContinue(e.req.opi))
            /\ \A j \in 1..Len(e.comd) :
                  (e.comd[j].opcode = "READ" /\ e.comd[j].ack)
                     => e.comd[j].byte_num = 1 /\ j = Len(e.comd) - 1
    /\ ReturnedOk =>
         \A k \in 1..Len(OpsOfCall) :
            OpsOfCall[k].kind = "Read" => BytesRead(k) = OpsOfCall[k].len

\* a read of three chunks that returned Ok
C6_Witness ==
    /\ call.api = "read" /\ ReturnedOk /\ Len(bus) = 3
    /\ call.ops[1].len = 2 * I2C_CHUNK_SIZE(variant) + 1

----------------------------------------------------------------------------
(* C7, C8 *)

\* C7: when a public transfer call has returned an error, the command list
\* and both FIFOs are empty and no interrupt flag is raised: the registers
\* are as reset() leaves them.
C7_ErrorLeavesReset ==
    ReturnedErr =>
        /\ regs.comd = <<>> /\ regs.txfifo = <<>> /\ regs.rxfifo = <<>>
        /\ regs.int_raw = {}
        /\ regs = Reset(variant, regs)

\* a call that returned an error no fault flag stands for, after its
\* physical operation had been started
C7_Witness ==
    /\ ReturnedErr /\ bus # <<>>
    /\ result \in {"ExecutionIncomplete", "Timeout", "FifoExceeded"}
    /\ firstErr = result

\* C8: once a physical operation of a call has failed, nothing more is put
\* on the bus and no further physical operation is attempted, and the call
\* returns the error of that first failure.
C8_StopsAtFirstFailure ==
    /\ [][firstErr # "None" => (bus' = bus /\ pi' = pi)]_vars
    /\ [](pc = "done" => (IF firstErr = "None" THEN result = "Ok"
                          ELSE result = firstErr))

\* a call that returned the error of a physical operation while more of its
\* physical operations were left
C8_Witness ==
    /\ ReturnedErr /\ result = firstErr /\ bus # <<>>
    /\ pi < Len(call.plan)

----------------------------------------------------------------------------
(* WaitSpec: one I2cFuture, the interrupt handler and the controller *)

\* I2cFuture is cfg(not(esp32))
WaitVariants == Variants \ {"esp32"}

\* enum Event, named by the interrupt bit it stands for
Events(v) ==
    {"end_detect", "trans_complete"}
        \cup (IF FifoLimited(v) THEN {} ELSE {"txfifo_wm"})

\* the int_ena bits I2cFuture::new sets
FutureEnables(event) == {event, "arbitration_lost", "time_out", "nack"}

\* the int_ena bits async_handler clears
HandlerClears(v) ==
    {"end_detect", "trans_complete", "arbitration_lost", "time_out", "nack"}
        \cup (IF FifoLimited(v) THEN {} ELSE {"txfifo_wm"})

\* I2cFuture::event_bit_is_clear
EventBitIsClear(ena, event) == event \notin ena

WaitInit ==
    /\ variant \in WaitVariants
    /\ regs \in {[ResetRegs EXCEPT !.resp_rec = b] : b \in BOOLEAN}
    /\ pc = "idle"
    /\ call = NoCall
    /\ pi = 0
    /\ bus = <<>>
    /\ result = "None"
    /\ firstErr = "None"
    /\ hwFault = FALSE
    /\ fut \in {[IdleWait EXCEPT !.pc = "new", !.event = e] : e \in Events(variant)}
    /\ int_ena = {}
    /\ irq = IdleIrq
    /\ poll = IdlePoll

\* I2cFuture::new, the future then being awaited: its first poll is due
FutureNew ==
    /\ fut.pc = "new"
    /\ int_ena' = int_ena \cup FutureEnables(fut.event)
    /\ fut' = [fut EXCEPT !.pc = "poll"]
    /\ UNCHANGED <<variant, regs, irq, seqVars, poll>>

\* poll, first statement: self.state.waker.register(ctx.waker()); a pending
\* future is polled again once its waker was woken
PollRegister ==
    /\ fut.pc = "poll" \/ (fut.pc = "pending" /\ irq.woken)
    /\ irq' = [woken |-> FALSE, registered |-> TRUE]
    /\ fut' = [fut EXCEPT !.pc = "check_error"]
    /\ UNCHANGED <<variant, regs, int_ena, seqVars, poll>>

\* poll, second statement: let error = self.check_error()
PollCheckError ==
    /\ fut.pc = "check_error"
    /\ fut' = IF FutureCheckError(variant, regs) # "Ok"
              THEN [fut EXCEPT !.pc = "resolved",
                               !.res = FutureCheckError(variant, regs),
                               !.seen = regs.int_raw]
              ELSE [fut EXCEPT !.pc = "event_bit"]
    /\ UNCHANGED <<variant, regs, int_ena, irq, seqVars, poll>>

\* poll, last statement: Ready(Ok(())) if the event bit is clear, else Pending
PollEventBit ==
    /\ fut.pc = "event_bit"
    /\ fut' = IF EventBitIsClear(int_ena, fut.event)
              THEN [fut EXCEPT !.pc = "resolved", !.res = "Ok",
                               !.seen = regs.int_raw]
              ELSE [fut EXCEPT !.pc = "pending"]
    /\ UNCHANGED <<variant, regs, int_ena, irq, seqVars, poll>>

\* async_handler, run when an enabled interrupt bit is raised
AsyncHandler ==
    /\ regs.int_raw \cap int_ena # {}
    /\ int_ena' = int_ena \ HandlerClears(variant)
    /\ irq' = IF irq.registered THEN [woken |-> TRUE, registered |-> FALSE]
              ELSE irq
    /\ UNCHANGED <<variant, regs, fut, seqVars, poll>>

\* the controller raises a fault flag or the flag of the awaited event
HwRaise ==
    /\ \E f \in (FaultFlags \cup {fut.event}) \ regs.int_raw :
          regs' = [regs EXCEPT !.int_raw = @ \cup {f}]
    /\ UNCHANGED <<variant, fut, int_ena, irq, seqVars, poll>>

WaitNext ==
    FutureNew \/ PollRegister \/ PollCheckError \/ PollEventBit
        \/ AsyncHandler \/ HwRaise

WaitSpec == WaitInit /\ [][WaitNext]_vars

WaitFairSpec ==
    WaitSpec /\ WF_vars(FutureNew) /\ WF_vars(PollRegister)
        /\ WF_vars(PollCheckError) /\ WF_vars(PollEventBit) /\ WF_vars(AsyncHandler)

\* C9 as stated, the part on the value: a wait does not resolve Ok while a
\* fault flag (time_out, nack, arbitration_lost) is raised.
C9_AsStated ==
    (fut.pc = "resolved" /\ fut.res = "Ok") => fut.seen \cap FaultFlags = {}

\* C9, the part on suspension: a wait during which a fault flag is raised does
\* not stay pending forever.
C9_FaultEndsWait ==
    (fut.pc # "none" /\ regs.int_raw \cap FaultFlags # {}) ~> (fut.pc = "resolved")

----------------------------------------------------------------------------
(* PollSpec: one blocking physical operation of one byte, loop by loop *)

\* what the controller may answer to a responsive bus
PollAnswers == {"complete", "not_done", "time_out", "nack_addr",
                "arbitration_lost", "no_response"}

PollInit ==
    /\ variant \in Variants
    /\ regs = ResetRegs
    /\ pc = "idle"
    /\ call = NoCall
    /\ pi = 0
    /\ bus = <<>>
    /\ result = "None"
    /\ firstErr = "None"
    /\ hwFault = FALSE
    /\ fut = IdleWait
    /\ int_ena = {}
    /\ irq = IdleIrq
    /\ poll \in {[pc |-> "call", kind |-> k, stop |-> st, hw |-> h, tout |-> 0,
                     seen |-> {}, slots |-> <<>>] :
                    k \in {"Write", "Read"}, st \in BOOLEAN,
                    h \in {"responsive", "wedged"}}

pollRest == <<variant, pc, call, pi, bus, firstErr, hwFault, fut, int_ena, irq>>

\* the operation returns res to the public call, which recovers on an error;
\* seen and slots keep the flags and the command slots it returned on
PollReturns(res, r) ==
    /\ poll' = [poll EXCEPT !.pc = "returned", !.seen = regs.int_raw,
                            !.slots = regs.comd]
    /\ result' = res
    /\ regs' = IF res # "Ok" THEN InternalRecover(variant, r) ELSE r

PollGoto(label, r) ==
    /\ poll' = [poll EXCEPT !.pc = label, !.tout = MaxIterations]
    /\ regs' = r
    /\ result' = result

\* the loop goes round without having changed anything
PollSpins == UNCHANGED <<poll, regs, result>>

\* write_operation_blocking / read_operation_blocking up to the first loop
PollStart ==
    /\ poll.pc = "call"
    /\ With(IF poll.kind = "Write"
            THEN StartWriteOperation(variant, ClearAllInterrupts(regs), 50, 0, 1,
                                     TRUE, poll.stop)
            ELSE StartReadOperation(variant, ClearAllInterrupts(regs), 50, 1,
                                    TRUE, poll.stop, FALSE),
       LAMBDA s :
         IF s.err # "Ok" THEN PollReturns(s.err, s.regs)
         ELSE PollGoto(IF poll.kind = "Write"
                       THEN (IF FifoLimited(variant) THEN "wait" ELSE "tx_wm1")
                       ELSE (IF FifoLimited(variant) THEN "rx_wait" ELSE "rx"),
                       s.regs))
    /\ UNCHANGED pollRest

\* write_remaining_tx_fifo_blocking, cfg(not(any(esp32, esp32s2))): the top
\* of the loop and the first while !txfifo_wm
PollTxWm1 ==
    /\ poll.pc = "tx_wm1"
    /\ IF CheckErrors(variant, regs) # "Ok"
       THEN PollReturns(CheckErrors(variant, regs), Reset(variant, regs))
       ELSE IF "txfifo_wm" \in regs.int_raw
       THEN PollGoto("tx_wm2", [regs EXCEPT !.int_raw = @ \ {"txfifo_wm"}])
       ELSE PollSpins
    /\ UNCHANGED pollRest

\* the second while !txfifo_wm, then index >= bytes.len()
PollTxWm2 ==
    /\ poll.pc = "tx_wm2"
    /\ IF "txfifo_wm" \in regs.int_raw
       THEN PollGoto("wait", regs)
       ELSE IF CheckErrors(variant, regs) # "Ok"
       THEN PollReturns(CheckErrors(variant, regs), Reset(variant, regs))
       ELSE PollSpins
    /\ UNCHANGED pollRest

\* read_all_from_fifo_blocking, cfg(not(any(esp32, esp32s2))): the loop that
\* waits for a byte in the receive FIFO
PollRx ==
    /\ poll.pc = "rx"
    /\ IF CheckErrors(variant, regs) # "Ok"
       THEN PollReturns(CheckErrors(variant, regs), Reset(variant, regs))
       ELSE IF regs.rxfifo # <<>>
       THEN PollGoto("wait", [regs EXCEPT !.rxfifo = Tail(@)])
       ELSE PollSpins
    /\ UNCHANGED pollRest

\* the end_only argument of the wait: false in read_all_from_fifo_blocking
\* ("rx_wait"), !stop at the end of the operation ("wait")
EndOnly(label, stop) == label = "wait" /\ ~stop

\* wait_for_completion_blocking: one round of its loop.  On esp32 / esp32s2
\* read_all_from_fifo_blocking runs it with end_only = false before the
\* bytes are taken out of the FIFO ("rx_wait").
PollWait ==
    /\ poll.pc \in {"rx_wait", "wait"}
    /\ IF CheckErrors(variant, regs) # "Ok"
       THEN PollReturns(CheckErrors(variant, regs), Reset(variant, regs))
       ELSE IF CompletionSeen(regs.int_raw, EndOnly(poll.pc, poll.stop))
       THEN IF poll.pc = "rx_wait"
            THEN IF CheckAllCommandsDone(regs) # "Ok"
                 THEN PollReturns(CheckAllCommandsDone(regs), regs)
                 ELSE PollGoto("wait", [regs EXCEPT !.rxfifo = <<>>])
            ELSE PollReturns(CheckAllCommandsDone(regs), regs)
       ELSE IF poll.tout - 1 = 0
       THEN PollReturns("Timeout", regs)
       ELSE /\ poll' = [poll EXCEPT !.tout = @ - 1]
            /\ UNCHANGED <<regs, result>>
    /\ UNCHANGED pollRest

PollRunning == poll.pc \in {"tx_wm1", "tx_wm2", "rx", "rx_wait", "wait"}

\* a responsive bus: the controller completes the commands or raises a fault
HwAnswer ==
    /\ PollRunning /\ poll.hw = "responsive" /\ regs.trans_start
    /\ \E ans \in PollAnswers :
          regs' = [Controller(variant, regs, ans, poll.stop)
                      EXCEPT !.rxfifo = regs.rxfifo]
    /\ UNCHANGED <<poll, result>>
    /\ UNCHANGED pollRest

\* a responsive bus: a byte arrives in the receive FIFO
HwRxByte ==
    /\ PollRunning /\ poll.hw = "responsive" /\ poll.kind = "Read"
    /\ regs.rxfifo = <<>> /\ poll.pc \in {"rx", "rx_wait"}
    /\ regs' = [regs EXCEPT !.rxfifo = <<BufByte(0)>>]
    /\ UNCHANGED <<poll, result>>
    /\ UNCHANGED pollRest

\* the transmit FIFO is below its watermark (a level, wedged bus or not)
HwWatermark ==
    /\ PollRunning /\ ~FifoLimited(variant) /\ poll.kind = "Write"
    /\ "txfifo_wm" \notin regs.int_raw
    /\ regs' = [regs EXCEPT !.int_raw = @ \cup {"txfifo_wm"}]
    /\ UNCHANGED <<poll, result>>
    /\ UNCHANGED pollRest

PollDriver == PollStart \/ PollTxWm1 \/ PollTxWm2 \/ PollRx \/ PollWait

PollNext == PollDriver \/ HwAnswer \/ HwRxByte \/ HwWatermark

PollSpec == PollInit /\ [][PollNext]_vars

\* the driver keeps running, and the watermark level shows
PollFairSpec ==
    PollSpec /\ WF_vars(PollStart) /\ WF_vars(PollTxWm1) /\ WF_vars(PollTxWm2)
        /\ WF_vars(PollRx) /\ WF_vars(PollWait) /\ WF_vars(HwWatermark)

\* C10 as stated: on a wedged bus (no completion flag, no fault flag ever) a
\* blocking write or read returns Err(Timeout).
C10_AsStated ==
    (poll.pc = "call" /\ poll.hw = "wedged")
        ~> (poll.pc = "returned" /\ result = "Timeout")

----------------------------------------------------------------------------
(* C11 *)

\* the operations of the call without its zero-length Reads
Kept == SelectSeq(call.ops, LAMBDA op : ~(op.kind = "Read" /\ op.len = 0))

\* C11: a transaction behaves as if its zero-length Reads were not in the
\* list: every physical operation belongs to an operation of the list
\* without them, no physical operation is a Read of no bytes, and the start,
\* stop and will_continue flags are those of the neighbours in that list; a
\* zero-length Write stays in the list as the previous/next operation of its
\* neighbours, and in a transaction that returned Ok it has a physical
\* operation if and only if it carries start or stop.
C11_ZeroLengthReadsDropped ==
    IsTransaction =>
        /\ \A i \in 1..Len(bus) :
              LET e == bus[i]
                  k == bus[i].req.opi
              IN  /\ k \in 1..Len(Kept)
                  /\ e.req.kind = Kept[k].kind
                  /\ e.req.kind = "Read" => e.req.len > 0
                  /\ e.req.start <=>
                        (e.req.off = 0 /\ (k = 1 \/ Kept[k].kind # Kept[k - 1].kind))
                  /\ (e.req.off + e.req.len = Kept[k].len) =>
                        /\ e.req.stop <=> k = Len(Kept)
                        /\ e.req.kind = "Read" =>
                              (e.req.will_continue <=>
                                  (k < Len(Kept) /\ Kept[k + 1].kind = "Read"))
        /\ ReturnedOk =>
              \A k \in 1..Len(Kept) :
                  Kept[k].len = 0 =>
                      (   (k = 1 \/ Kept[k - 1].kind # "Write" \/ k = Len(Kept))
                      <=> (\E i \in 1..Len(bus) : bus[i].req.opi = k))

\* a completed transaction with a zero-length Read between two other
\* operations and a physical operation of a zero-length Write
C11_Witness ==
    /\ IsTransaction /\ ReturnedOk
    /\ \E j \in 2..(Len(call.ops) - 1) : call.ops[j] = Op("Read", 0)
    /\ \E i \in 1..Len(bus) : bus[i].req.kind = "Write" /\ bus[i].req.len = 0

----------------------------------------------------------------------------
(* SessionSpec: public calls one after the other on the same driver, each
   finding the registers as the call before it left them *)

SessionLens == {0, 1, 2}

\* the operations of a session transaction: Write(0), Write(1), Read(1)
SessionKinds == {<<"Write", 0>>, <<"Write", 1>>, <<"Read", 1>>}

SessionOps(n, ks) == [i \in 1..n |-> Op(ks[i][1], ks[i][2])]

SessionWrite ==
    /\ pc = "idle"
    /\ \E m \in Modes, a \in Addrs, l \in SessionLens :
          Begin([api |-> "write", mode |-> m, addr |-> a,
                 ops |-> <<Op("Write", l)>>, plan |-> <<>>])

SessionRead ==
    /\ pc = "idle"
    /\ \E m \in Modes, a \in Addrs, l \in SessionLens :
          Begin([api |-> "read", mode |-> m, addr |-> a,
                 ops |-> <<Op("Read", l)>>, plan |-> <<>>])

SessionTransaction ==
    /\ pc = "idle"
    /\ \E m \in Modes, a \in Addrs, n \in 1..MaxOps :
          \E ks \in [1..n -> SessionKinds] :
              Begin([api |-> "transaction", mode |-> m, addr |-> a,
                     ops |-> SessionOps(n, ks), plan |-> <<>>])

\* the call returned; the caller is free to make the next one
NextCall ==
    /\ pc = "done"
    /\ pc' = "idle"
    /\ call' = NoCall
    /\ pi' = 0
    /\ bus' = <<>>
    /\ result' = "None"
    /\ firstErr' = "None"
    /\ hwFault' = FALSE
    /\ UNCHANGED <<variant, regs, fut, int_ena, irq, poll>>

SessionNext ==
    SessionWrite \/ SessionRead \/ SessionTransaction \/ PhysOp \/ Return \/ NextCall

SessionSpec == Init /\ [][SessionNext]_vars

----------------------------------------------------------------------------
(* C12 *)

\* a read into an empty buffer is running
EmptyReadRuns == pc = "run" /\ call.api = "read" /\ call.ops[1].len = 0

\* C12: read(addr, []), whatever the calls before it left in the registers,
\* does one thing only: it returns Ok. No register changes (no command is
\* enqueued, no FIFO is written, read or reset, the transmission-start bit is
\* not set, no flag is cleared) and no physical operation is executed.
C12_EmptyReadDoesNothing ==
    [][EmptyReadRuns =>
          (pc' = "done" /\ result' = "Ok" /\ regs' = regs /\ bus' = <<>>)]_vars

\* read(addr, []) returned on a driver whose registers hold the commands and
\* the raised flags of an earlier call
C12_Witness ==
    /\ pc = "done" /\ call.api = "read" /\ call.ops[1].len = 0 /\ result = "Ok"
    /\ regs.comd # <<>> /\ regs.int_raw # {}

----------------------------------------------------------------------------
(* C13 *)

\* the next physical operation is a write of no bytes without start and stop
EmptyWriteNext ==
    /\ pc = "run" /\ pi < Len(call.plan)
    /\ call.plan[pi + 1].kind = "Write" /\ call.plan[pi + 1].len = 0
    /\ ~call.plan[pi + 1].start /\ ~call.plan[pi + 1].stop

\* C13 as stated: a write operation with an empty buffer, start = false and
\* stop = false leaves every register, the pending interrupt and fault flags
\* included, as it was.
C13_AsStated == [][EmptyWriteNext => regs' = regs]_vars

\* C13: a write operation with an empty buffer, start = false and stop =
\* false returns Ok, executes nothing on the bus, and leaves command slots,
\* FIFOs and control register as they were; the pending interrupt and fault
\* flags are cleared.
C13_EmptyWriteClearsFlagsOnly ==
    [][EmptyWriteNext =>
          /\ regs' = [regs EXCEPT !.int_raw = {}]
          /\ bus' = bus
          /\ pc' = "run" /\ pi' = pi + 1 /\ result' = result]_vars

\* after such a write operation: the commands of the operation before it are
\* still in their slots, and no flag is pending
C13_Witness ==
    /\ pc = "run" /\ pi >= 2
    /\ call.plan[pi].kind = "Write" /\ call.plan[pi].len = 0
    /\ ~call.plan[pi].start /\ ~call.plan[pi].stop
    /\ regs.comd # <<>> /\ regs.int_raw = {}

----------------------------------------------------------------------------
(* C14 *)

\* C14: write_read is one bus transaction. Each phase begins with a Start
\* command in its first physical operation and holds no other Start. With a
\* read buffer that is not empty no physical operation of the write phase
\* holds a Stop (each ends with End) and the last chunk of the read phase,
\* and only it, ends with Stop; with an empty read buffer the last chunk of
\* the write phase ends with Stop and the read phase has no physical
\* operation. A call that returned Ok has put exactly one Stop on the bus,
\* as the last command of its last physical operation.
C14_WriteReadOneTransaction ==
    call.api = "write_read" =>
        /\ \A i \in 1..Len(bus) :
              LET e == bus[i] IN
              /\ CountOp(e.comd, "RSTART") = (IF e.req.off = 0 THEN 1 ELSE 0)
              /\ e.req.off = 0 => e.comd[1] = CmdStart
              /\ LastCmd(e) \in {CmdStop, CmdEnd}
              /\ CountOp(e.comd, "STOP") = (IF LastCmd(e) = CmdStop THEN 1 ELSE 0)
              /\ e.req.opi = 1 =>
                    (LastCmd(e) = CmdStop <=> (call.ops[2].len = 0 /\ IsLastChunk(e)))
              /\ e.req.opi = 2 =>
                    /\ call.ops[2].len > 0
                    /\ LastCmd(e) = CmdStop <=> IsLastChunk(e)
              /\ i < Len(bus) => LastCmd(e) = CmdEnd
        /\ ReturnedOk =>
              /\ StopsOnBus = 1
              /\ LastCmd(bus[Len(bus)]) = CmdStop
              /\ bus[1].req.opi = 1
              /\ bus[Len(bus)].req.opi = (IF call.ops[2].len = 0 THEN 1 ELSE 2)

\* a completed write_read whose read phase took two physical operations
C14_Witness ==
    /\ call.api = "write_read" /\ ReturnedOk
    /\ Len(bus) >= 3 /\ bus[1].req.opi = 1 /\ bus[2].req.opi = 2

----------------------------------------------------------------------------
(* QueueSpec: add_cmd called again and again on one iterator over the command
   registers *)

QueueCommands == {CmdStart, CmdWrite(FALSE, TRUE, 1), CmdStop}

\* calls of add_cmd made on the iterator
MaxEnqueues == CmdSlots + 2

Enqueue ==
    /\ pi < MaxEnqueues
    /\ \E command \in QueueCommands :
          /\ regs' = AddCmd(regs, command).regs
          /\ result' = AddCmd(regs, command).err
    /\ pi' = pi + 1
    /\ UNCHANGED <<variant, pc, call, bus, firstErr, hwFault, fut, int_ena, irq, poll>>

QueueNext == Enqueue

QueueSpec == Init /\ [][QueueNext]_vars

----------------------------------------------------------------------------
(* C15 *)

\* C15: add_cmd on a queue whose CmdSlots slots are all occupied returns
\* CommandNumberExceeded and writes no register: every slot holds the
\* command it held before; the queue never holds more than CmdSlots commands.
C15_FullQueueRejects ==
    [][/\ Len(regs'.comd) <= CmdSlots
       /\ Len(regs.comd) = CmdSlots =>
             (result' = "CommandNumberExceeded" /\ regs' = regs)]_vars

\* add_cmd was called on a full queue
C15_Witness ==
    /\ Len(regs.comd) = CmdSlots /\ pi > CmdSlots
    /\ result = "CommandNumberExceeded"

----------------------------------------------------------------------------
(* u32 arithmetic. A u32 is held as two 16-bit halves [hi, lo], so that every
   value up to 2^32 - 1 and every wrapped result can be written down. Each
   operation returns [val, ovf]: the result modulo 2^32 (what a build without
   overflow checks computes) and whether the exact result was out of range
   (where a build with overflow checks panics). *)

B16 == 65536

U32(hi, lo) == [hi |-> hi, lo |-> lo]

\* 0 <= n < 2^31
FromInt(n) == U32(n \div B16, n % B16)

Fits31(x) == x.hi < 32768
ToInt(x) == x.hi * B16 + x.lo

Leq(x, y) == x.hi < y.hi \/ (x.hi = y.hi /\ x.lo <= y.lo)

Carried(hi, lo) == [val |-> U32(hi % B16, lo % B16), ovf |-> hi >= B16]
Add(x, y) == Carried(x.hi + y.hi + ((x.lo + y.lo) \div B16), x.lo + y.lo)

Borrowed(hi, lo) == [val |-> U32((hi + B16) % B16, (lo + B16) % B16), ovf |-> hi < 0]
Sub(x, y) ==
    Borrowed(x.hi - y.hi - (IF x.lo < y.lo THEN 1 ELSE 0), x.lo - y.lo)

\* the exact product of two 16-bit numbers p = a * 256 + b and q
Parts(u, s) == U32((u \div 256) + (s \div B16), s % B16)
MulParts(p, q) == Parts((p \div 256) * q, (((p \div 256) * q) % 256) * 256 + (p % 256) * q)

Product(x, y, ll, lh, hl) ==
    [val |-> U32((ll.hi + lh.lo + hl.lo) % B16, ll.lo),
     ovf |-> \/ (x.hi > 0 /\ y.hi > 0)
             \/ lh.hi > 0 \/ hl.hi > 0
             \/ ll.hi + lh.lo + hl.lo >= B16]
Mul(x, y) ==
    Product(x, y, MulParts(x.lo, y.lo), MulParts(x.lo, y.hi), MulParts(x.hi, y.lo))

\* n / y for a dividend n < 2^31 and a divisor y # 0
DivInt(n, y) == IF Fits31(y) THEN n \div ToInt(y) ELSE 0

RECURSIVE IlogInt(_)
IlogInt(n) == IF n < 2 THEN 0 ELSE 1 + IlogInt(n \div 2)

RECURSIVE Pow2(_)
Pow2(k) == IF k = 0 THEN 1 ELSE 2 * Pow2(k - 1)

\* u32::ilog2 of x # 0
Ilog2(x) == IF x.hi > 0 THEN 16 + IlogInt(x.hi) ELSE IlogInt(x.lo)

\* 1 << k for k < 32
Shl1(k) == IF k < 16 THEN U32(0, Pow2(k)) ELSE U32(Pow2(k - 16), 0)

----------------------------------------------------------------------------
(* Configuration: BusTimeout, SetFrequency, ConfigureClock, setup *)

Maximum == [kind |-> "Maximum", cycles |-> U32(0, 0)]
Disabled == [kind |-> "Disabled", cycles |-> U32(0, 0)]
BusCycles(c) == [kind |-> "BusCycles", cycles |-> c]

Newer(v) == v \notin {"esp32", "esp32s2"}

\* BusTimeout::cycles() of Maximum: 0xF_FFFF, 0xFF_FFFF, 0x1F
TimeoutMax(v) ==
    IF v = "esp32" THEN 1048575 ELSE IF v = "esp32s2" THEN 16777215 ELSE 31

\* the timeout register: to.time_out_en (absent on esp32, held TRUE) and
\* to.time_out / to.time_out_value
ToReg(en, value) == [en |-> en, value |-> value]

\* the source clock setup passes to set_frequency: clocks.i2c_clock on esp32,
\* clocks.apb_clock on esp32s2 (80 MHz), clocks.xtal_clock on the others
\* (40 MHz)
SourceClk(v) == IF Newer(v) THEN 40000000 ELSE 80000000

\* the width of the scl_wait_high_period field writer that try_into()
\* converts to: u16 on esp32s2 (a 14-bit field), u8 on the newer variants
\* (a 7-bit field)
WaitHighMax(v) == IF v = "esp32s2" THEN 65535 ELSE 255

\* ctr as setup writes it
CtrMaster(v) ==
    [ms_mode |-> TRUE, sda_force_out |-> TRUE, scl_force_out |-> TRUE,
     tx_lsb_first |-> FALSE, rx_lsb_first |-> FALSE, clk_en |-> TRUE,
     ref_always_on |-> v = "esp32s2"]

\* ctr before the first setup
CtrPowerOn ==
    [ms_mode |-> FALSE, sda_force_out |-> FALSE, scl_force_out |-> FALSE,
     tx_lsb_first |-> FALSE, rx_lsb_first |-> FALSE, clk_en |-> FALSE,
     ref_always_on |-> FALSE]

FilterOff == [sda_thres |-> 0, scl_thres |-> 0, sda_en |-> FALSE, scl_en |-> FALSE]

\* set_filter(regs, Some(sda_threshold), Some(scl_threshold))
SetFilter(r, sda_threshold, scl_threshold) ==
    [r EXCEPT !.filter = [sda_thres |-> sda_threshold, scl_thres |-> scl_threshold,
                          sda_en |-> TRUE, scl_en |-> TRUE]]

\* the register block before the first setup: the transfer registers of
\* ResetRegs and the configuration registers
PowerOnRegs ==
    [comd |-> <<>>, txfifo |-> <<>>, rxfifo |-> <<>>, int_raw |-> {},
     trans_start |-> FALSE, resp_rec |-> FALSE, txfifo_raddr |-> 0,
     ctr |-> CtrPowerOn, filter |-> FilterOff, sclk_div_num |-> 0,
     scl_low_period |-> 0, scl_high_period |-> 0, scl_wait_high_period |-> 0,
     sda_hold |-> 0, sda_sample |-> 0, scl_rstart_setup |-> 0,
     scl_stop_setup |-> 0, scl_start_hold |-> 0, scl_stop_hold |-> 0,
     to |-> ToReg(FALSE, 0)]

\* half_cycle = source_clk / bus_freq / 2
HalfCycle(source_clk, bus_freq) == (source_clk \div bus_freq) \div 2

\* an arithmetic overflow or a division by zero that panics
Panic(r) == ErrR("Panic", r)

CheckTimeout(val, max) ==
    IF Leq(val, FromInt(max)) THEN "Ok" ELSE "TimeoutInvalid"

\* the timing values set_frequency hands to configure_clock, each a u32
Timing(sclk_div, scl_low_period, scl_high_period, scl_wait_high_period,
       sda_hold_time, sda_sample_time, scl_rstart_setup_time,
       scl_stop_setup_time, scl_start_hold_time, scl_stop_hold_time) ==
    [sclk_div |-> sclk_div, scl_low_period |-> scl_low_period,
     scl_high_period |-> scl_high_period,
     scl_wait_high_period |-> scl_wait_high_period,
     sda_hold_time |-> sda_hold_time, sda_sample_time |-> sda_sample_time,
     scl_rstart_setup_time |-> scl_rstart_setup_time,
     scl_stop_setup_time |-> scl_stop_setup_time,
     scl_start_hold_time |-> scl_start_hold_time,
     scl_stop_hold_time |-> scl_stop_hold_time]

\* a try_into() that never fails
WaitHighAlwaysFits(v, t) == TRUE

\* scl_wait_high_period.try_into() succeeds; esp32 has no such conversion
WaitHighFits(v, t) ==
    v = "esp32" \/ Leq(t.scl_wait_high_period, FromInt(WaitHighMax(v)))

\* configure_clock, after the divider and scl_low_period were written
ConfigureRest(v, r, t, timeout) ==
    IF ~WaitHighFits(v, t)
    THEN ErrR("FrequencyInvalid", r)
    ELSE OkR([r EXCEPT
                !.scl_wait_high_period =
                    IF v = "esp32" THEN @ ELSE t.scl_wait_high_period.lo,
                !.scl_high_period = t.scl_high_period.lo,
                !.sda_hold = t.sda_hold_time.lo,
                !.sda_sample = t.sda_sample_time.lo,
                !.scl_rstart_setup = t.scl_rstart_setup_time.lo,
                !.scl_stop_setup = t.scl_stop_setup_time.lo,
                !.scl_start_hold = t.scl_start_hold_time.lo,
                !.scl_stop_hold = t.scl_stop_hold_time.lo,
                !.to = timeout])

\* configure_clock: `as u16` keeps the low half, `as u8` the low byte
ConfigureClock(v, r, t, timeout) ==
    ConfigureRest(v,
        [r EXCEPT !.sclk_div_num =
                      IF Newer(v) THEN Sub(t.sclk_div, FromInt(1)).val.lo % 256
                      ELSE @,
                  !.scl_low_period = t.scl_low_period.lo],
        t, timeout)

\* cycles * 2 * half_cycle
TimeoutProduct(cycles, half_cycle) ==
    With(Mul(cycles, FromInt(2)), LAMBDA twice :
        With(Mul(twice.val, FromInt(half_cycle)), LAMBDA p :
            [val |-> p.val, ovf |-> twice.ovf \/ p.ovf]))

\* the timeout arm of set_frequency on esp32 and esp32s2: [err, value]
LinearTimeout(v, checks, timeout, half_cycle) ==
    IF timeout.kind = "Maximum" THEN [err |-> "Ok", value |-> TimeoutMax(v)]
    ELSE With(TimeoutProduct(timeout.cycles, half_cycle), LAMBDA p :
            IF checks /\ p.ovf THEN [err |-> "Panic", value |-> 0]
            ELSE IF CheckTimeout(p.val, TimeoutMax(v)) # "Ok"
            THEN [err |-> "TimeoutInvalid", value |-> 0]
            ELSE [err |-> "Ok", value |-> ToInt(p.val)])

\* (cycles * 2 * half_cycle).max(1)
ToPeri(val) == IF val = U32(0, 0) THEN U32(0, 1) ELSE val

\* log2 + 1 if to_peri != 1 << log2, else log2
RawExponent(to_peri) ==
    IF to_peri # Shl1(Ilog2(to_peri)) THEN Ilog2(to_peri) + 1 ELSE Ilog2(to_peri)

\* the timeout arm of set_frequency on the newer variants: [err, value, en]
ExponentTimeout(v, checks, timeout, half_cycle) ==
    IF timeout.kind = "Maximum"
    THEN [err |-> "Ok", value |-> TimeoutMax(v), en |-> TRUE]
    ELSE IF timeout.kind = "Disabled"
    THEN [err |-> "Ok", value |-> 1, en |-> FALSE]
    ELSE With(TimeoutProduct(timeout.cycles, half_cycle), LAMBDA p :
            IF checks /\ p.ovf THEN [err |-> "Panic", value |-> 0, en |-> FALSE]
            ELSE IF CheckTimeout(FromInt(RawExponent(ToPeri(p.val))),
                                  TimeoutMax(v)) # "Ok"
            THEN [err |-> "TimeoutInvalid", value |-> 0, en |-> FALSE]
            ELSE [err |-> "Ok", value |-> RawExponent(ToPeri(p.val)), en |-> TRUE])

\* cfg(esp32): the timeout is checked first, then scl_low - 1 and
\* scl_high -= 7 + 6
SetFrequencyEsp32(r, checks, half_cycle, timeout) ==
    With(LinearTimeout("esp32", checks, timeout, half_cycle), LAMBDA to :
        IF to.err # "Ok" THEN ErrR(to.err, r)
        ELSE IF checks /\ half_cycle < 13 THEN Panic(r)
        ELSE ConfigureClock("esp32", r,
                 Timing(U32(0, 0),
                        Sub(FromInt(half_cycle), FromInt(1)).val,
                        Sub(FromInt(half_cycle), FromInt(13)).val,
                        U32(0, 0),
                        FromInt(half_cycle \div 2),
                        FromInt(half_cycle \div 2),
                        FromInt(half_cycle), FromInt(half_cycle),
                        FromInt(half_cycle), FromInt(half_cycle)),
                 ToReg(TRUE, to.value)))

\* cfg(esp32s2): scl_high = half_cycle / 2 + 2, scl_wait_high = half_cycle -
\* scl_high, sda_sample = half_cycle / 2 - 1, scl_low - 1, hold - 1, and then
\* the timeout
S2Timing(half_cycle) ==
    Timing(U32(0, 0),
           Sub(FromInt(half_cycle), FromInt(1)).val,
           FromInt(half_cycle \div 2 + 2),
           Sub(FromInt(half_cycle), FromInt(half_cycle \div 2 + 2)).val,
           FromInt(half_cycle \div 2),
           Sub(FromInt(half_cycle \div 2), FromInt(1)).val,
           FromInt(half_cycle), FromInt(half_cycle),
           Sub(FromInt(half_cycle), FromInt(1)).val,
           FromInt(half_cycle))

S2Underflows(half_cycle) ==
    \/ Sub(FromInt(half_cycle), FromInt(half_cycle \div 2 + 2)).ovf
    \/ Sub(FromInt(half_cycle \div 2), FromInt(1)).ovf
    \/ Sub(FromInt(half_cycle), FromInt(1)).ovf

SetFrequencyEsp32s2(r, checks, half_cycle, timeout) ==
    IF checks /\ S2Underflows(half_cycle) THEN Panic(r)
    ELSE With(LinearTimeout("esp32s2", checks, timeout, half_cycle), LAMBDA to :
            IF to.err # "Ok" THEN ErrR(to.err, r)
            ELSE ConfigureClock("esp32s2", r, S2Timing(half_cycle),
                                 ToReg(TRUE, to.value)))

\* cfg(newer): scl_wait_high, a [val, ovf]
NewerWaitHigh(bus_freq, half_cycle) ==
    IF bus_freq >= 80 * 1000
    THEN Sub(FromInt(half_cycle \div 2), FromInt(2))
    ELSE [val |-> FromInt(half_cycle \div 4), ovf |-> FALSE]

\* sda_sample = half_cycle / 2 + scl_wait_high, a [val, ovf]
NewerSdaSample(half_cycle, wh) == Add(FromInt(half_cycle \div 2), wh.val)

NewerTiming(clkm_div, half_cycle, wh) ==
    Timing(FromInt(clkm_div),
           Sub(FromInt(half_cycle), FromInt(1)).val,
           Sub(FromInt(half_cycle), wh.val).val,
           wh.val,
           Sub(FromInt(half_cycle \div 4), FromInt(1)).val,
           Sub(NewerSdaSample(half_cycle, wh).val, FromInt(1)).val,
           Sub(FromInt(half_cycle), FromInt(1)).val,
           Sub(FromInt(half_cycle), FromInt(1)).val,
           Sub(FromInt(half_cycle), FromInt(1)).val,
           Sub(FromInt(half_cycle), FromInt(1)).val)

NewerOverflows(half_cycle, wh) ==
    \/ wh.ovf
    \/ Sub(FromInt(half_cycle), wh.val).ovf
    \/ NewerSdaSample(half_cycle, wh).ovf
    \/ Sub(FromInt(half_cycle), FromInt(1)).ovf
    \/ Sub(FromInt(half_cycle \div 4), FromInt(1)).ovf
    \/ Sub(NewerSdaSample(half_cycle, wh).val, FromInt(1)).ovf

SetFrequencyNewerTimed(v, r, checks, clkm_div, half_cycle, wh, timeout) ==
    IF checks /\ NewerOverflows(half_cycle, wh) THEN Panic(r)
    ELSE With(ExponentTimeout(v, checks, timeout, half_cycle), LAMBDA to :
            IF to.err # "Ok" THEN ErrR(to.err, r)
            ELSE ConfigureClock(v, r, NewerTiming(clkm_div, half_cycle, wh),
                                 ToReg(to.en, to.value)))

\* half_cycle of sclk_freq, with sclk_freq = source_clk / clkm_div
SetFrequencyNewerDivided(v, r, checks, source_clk, bus_freq, clkm_div, timeout) ==
    SetFrequencyNewerTimed(v, r, checks, clkm_div,
        HalfCycle(source_clk \div clkm_div, bus_freq),
        NewerWaitHigh(bus_freq, HalfCycle(source_clk \div clkm_div, bus_freq)),
        timeout)

\* clkm_div = source_clk / (bus_freq * 1024) + 1
SetFrequencyNewer(v, r, checks, source_clk, bus_freq, timeout) ==
    With(Mul(FromInt(bus_freq), FromInt(1024)), LAMBDA scaled :
        IF (checks /\ scaled.ovf) \/ scaled.val = U32(0, 0) \/ bus_freq = 0
        THEN Panic(r)
        ELSE SetFrequencyNewerDivided(v, r, checks, source_clk, bus_freq,
                                      DivInt(source_clk, scaled.val) + 1, timeout))

\* Driver::set_frequency; checks: the build has overflow checks
SetFrequency(v, r, checks, source_clk, bus_freq, timeout) ==
    IF Newer(v) THEN SetFrequencyNewer(v, r, checks, source_clk, bus_freq, timeout)
    ELSE IF bus_freq = 0 THEN Panic(r)
    ELSE IF v = "esp32"
    THEN SetFrequencyEsp32(r, checks, HalfCycle(source_clk, bus_freq), timeout)
    ELSE SetFrequencyEsp32s2(r, checks, HalfCycle(source_clk, bus_freq), timeout)

\* a setup that resets the peripheral whatever SetFrequency returned
ResetAlways(v, a) == [err |-> a.err, regs |-> Reset(v, a.regs)]

\* set_frequency(..)?; update_config(); reset()
ResetWhenAccepted(v, a) == Try(a, LAMBDA r : OkR(Reset(v, r)))

\* Driver::setup
Setup(v, r, checks, config) ==
    ResetWhenAccepted(v,
        SetFrequency(v, SetFilter([r EXCEPT !.ctr = CtrMaster(v)], 7, 7),
                      checks, SourceClk(v), config.frequency, config.timeout))

----------------------------------------------------------------------------
(* ConfigSpec: I2c::new and I2c::apply_config, with transfers in between *)

ConfigVariants == {"esp32", "esp32s2", "esp32s3"}

\* bus frequencies in Hz: Standard-mode, Fast-mode, one far below and one far
\* above them, and 320 kHz, whose half_cycle of 80 MHz is odd (125)
StandardFrequencies == {100000, 400000}
ConfigFrequencies == StandardFrequencies \cup {100, 320000, 20000000}

\* cycle counts of BusCycles: the default 10, the greatest accepted and the
\* least rejected count of the variant at 100 kHz, the least count whose
\* product with 2 * half_cycle does not fit 32 bits, and the greatest u32
ConfigCycles(v) ==
    IF v = "esp32"
    THEN {U32(0, 10), U32(0, 1310), U32(0, 1311), U32(81, 60294), U32(65535, 65535)}
    ELSE IF v = "esp32s2"
    THEN {U32(0, 10), U32(0, 20971), U32(0, 20972), U32(81, 60294),
          U32(65535, 65535)}
    ELSE {U32(0, 0), U32(0, 10), U32(81, 60293), U32(81, 60294), U32(163, 55051),
          U32(65535, 65535)}

ConfigTimeouts(v) ==
    {Maximum} \cup (IF Newer(v) THEN {Disabled} ELSE {})
        \cup {BusCycles(c) : c \in ConfigCycles(v)}

Configs(v) ==
    {[frequency |-> f, timeout |-> t] : f \in ConfigFrequencies, t \in ConfigTimeouts(v)}

\* the Config of I2c before the first call
UnsetConfig == [frequency |-> 0, timeout |-> Maximum]

\* call.config is the stored Config, self.config; call.recovered is what the
\* setup of the last internal_recover returned
NoConfig ==
    [api |-> "none", checks |-> FALSE, frequency |-> 0, timeout |-> Maximum,
     config |-> UnsetConfig, recovered |-> "None"]

ConfigInit ==
    /\ variant \in ConfigVariants
    /\ regs = PowerOnRegs
    /\ pc = "off"
    /\ call = NoConfig
    /\ pi = 0
    /\ bus = <<>>
    /\ result = "None"
    /\ firstErr = "None"
    /\ hwFault = FALSE
    /\ fut = IdleWait
    /\ int_ena = {}
    /\ irq = IdleIrq
    /\ poll = IdlePoll

\* a Config that is stored whatever setup returned
StoredAlways(config, stored, err) == config

\* I2cMaster::new builds the I2c from config and returns it if setup
\* succeeded; apply_config: setup(config)?; self.config = *config
Stored(config, stored, err) == IF err = "Ok" THEN config ELSE stored

\* a configuration call returned o, or panicked; pi is the number of
\* configuration calls made so far, modulo 2
Configured(api, checks, config, o) ==
    /\ call' = [api |-> api, checks |-> checks, frequency |-> config.frequency,
                timeout |-> config.timeout,
                config |-> Stored(config, call.config, o.err),
                recovered |-> call.recovered]
    /\ result' = o.err
    /\ regs' = o.regs
    /\ pi' = 1 - pi
    /\ pc' = IF o.err = "Panic" THEN "panicked"
             ELSE IF o.err = "Ok" THEN "ready"
             ELSE pc
    /\ UNCHANGED <<variant, bus, firstErr, hwFault, fut, int_ena, irq, poll>>

\* I2c::new(peripheral, config)
New ==
    /\ pc = "off"
    /\ \E checks \in BOOLEAN, config \in Configs(variant) :
          Configured("new", checks, config, Setup(variant, regs, checks, config))

\* I2c::apply_config(&config)
ApplyConfig ==
    /\ pc = "ready"
    /\ \E config \in Configs(variant) :
          Configured("apply_config", call.checks, config,
                     Setup(variant, regs, call.checks, config))

\* a one-byte write that the device acknowledges and that returns Ok: it
\* leaves its commands in the queue and its completion flag raised
ConfigTransfer ==
    /\ pc = "ready"
    /\ regs' = Operation(variant, "blocking", regs, 50,
                         Req("Write", 1, 0, 1, TRUE, TRUE, FALSE), "complete").regs
    /\ call' = [call EXCEPT !.api = "transfer"]
    /\ result' = "Ok"
    /\ UNCHANGED <<variant, pc, pi, bus, firstErr, hwFault, fut, int_ena, irq, poll>>

\* PeripheralClockControl::disable, enable, reset of the peripheral: its
\* registers return to their power-on values
PeripheralReset(r) == PowerOnRegs

\* a transfer returned the error of o and internal_recover ran: the
\* peripheral reset, then rec = setup(&self.config), whose result is dropped
Recovered(o, rec) ==
    /\ o.err # "Ok"
    /\ result' = o.err
    /\ regs' = rec.regs
    /\ call' = [call EXCEPT !.api = "transfer", !.recovered = rec.err]
    /\ pc' = IF rec.err = "Panic" THEN "panicked" ELSE pc
    /\ UNCHANGED <<variant, pi, bus, firstErr, hwFault, fut, int_ena, irq, poll>>

\* a one-byte write that fails (no acknowledge, time-out, arbitration lost),
\* with .inspect_err(|_| self.i2c.internal_recover())
ConfigFailedTransfer ==
    /\ pc = "ready"
    /\ \E ans \in {"nack_addr", "time_out", "arbitration_lost"} :
          Recovered(Operation(variant, "blocking", regs, 50,
                              Req("Write", 1, 0, 1, TRUE, TRUE, FALSE), ans),
                    Setup(variant, PeripheralReset(regs), call.checks, call.config))

ConfigNext == New \/ ApplyConfig \/ ConfigTransfer

\* configurations of a driver whose transfers fail: 100 kHz and two
\* frequencies out of range, the default timeout, the greatest one and one
\* that is rejected
RecoverConfigs(v) ==
    {[frequency |-> f, timeout |-> t] :
        f \in {100, 100000, 20000000},
        t \in {Maximum, BusCycles(U32(0, 10)), BusCycles(U32(81, 60294))}}

RecoverNew ==
    /\ pc = "off"
    /\ \E checks \in BOOLEAN, config \in RecoverConfigs(variant) :
          Configured("new", checks, config, Setup(variant, regs, checks, config))

RecoverApplyConfig ==
    /\ pc = "ready"
    /\ \E config \in RecoverConfigs(variant) :
          Configured("apply_config", call.checks, config,
                     Setup(variant, regs, call.checks, config))

RecoverNext ==
    RecoverNew \/ RecoverApplyConfig \/ ConfigTransfer \/ ConfigFailedTransfer

RecoverSpec == ConfigInit /\ [][RecoverNext]_vars

ConfigSpec == ConfigInit /\ [][ConfigNext]_vars

----------------------------------------------------------------------------
(* What a configuration call was asked and what it did *)

ConfigCall == call.api \in {"new", "apply_config"}
ConfigErrors == {"TimeoutInvalid", "FrequencyInvalid"}

\* this step is a configuration call
ConfigStep == pi' # pi

\* the call asked for BusCycles(c) at a Standard-mode or Fast-mode frequency,
\* where no timing value of any variant leaves its range
StandardBusCycles ==
    /\ ConfigCall
    /\ call.frequency \in StandardFrequencies
    /\ call.timeout.kind = "BusCycles"

\* half_cycle of the call's frequency
CallHalfCycle ==
    IF Newer(variant)
    THEN HalfCycle(SourceClk(variant)
                       \div ((SourceClk(variant) \div (call.frequency * 1024)) + 1),
                   call.frequency)
    ELSE HalfCycle(SourceClk(variant), call.frequency)

\* c * 2 * half_cycle of the call: its low 32 bits, and whether it is 2^32 or
\* more
CallProduct == TimeoutProduct(call.timeout.cycles, CallHalfCycle)

\* the derived timeout value exceeds the variant maximum: the product is
\* above 0xF_FFFF / 0xFF_FFFF, or its rounded-up exponent is above 0x1F,
\* that is, the product is above 2^31
DerivedExceedsMax ==
    \/ CallProduct.ovf
    \/ ~Leq(CallProduct.val,
            IF Newer(variant) THEN Shl1(31) ELSE FromInt(TimeoutMax(variant)))

\* the registers a reset clears
TransferRegs(r) == <<r.comd, r.txfifo, r.rxfifo, r.int_raw, r.txfifo_raddr>>

----------------------------------------------------------------------------
(* C16 *)

\* C16 as stated, at 100 kHz and 400 kHz: with BusCycles(c) the call fails
\* with TimeoutInvalid if and only if the derived timeout value exceeds the
\* variant maximum, and succeeds otherwise; with Maximum it succeeds and the
\* timeout register holds the variant maximum.
C16_AsStated ==
    /\ StandardBusCycles =>
          /\ result = "TimeoutInvalid" <=> DerivedExceedsMax
          /\ ~DerivedExceedsMax => result = "Ok"
    /\ (ConfigCall /\ call.frequency \in StandardFrequencies
          /\ call.timeout.kind = "Maximum") =>
          (result = "Ok" /\ regs.to.value = TimeoutMax(variant))

----------------------------------------------------------------------------
(* C17 *)

\* C17 as stated, at 100 kHz and 400 kHz: on the variants with an exponent
\* timeout, after an accepted BusCycles(c) the programmed exponent e is the
\* smallest one with 2^e >= max(1, c * 2 * half_cycle).
C17_AsStated ==
    (StandardBusCycles /\ Newer(variant) /\ result = "Ok") =>
        /\ ~CallProduct.ovf
        /\ regs.to.value \in 0..31
        /\ Leq(ToPeri(CallProduct.val), Shl1(regs.to.value))
        /\ regs.to.value > 0 =>
              ~Leq(ToPeri(CallProduct.val), Shl1(regs.to.value - 1))

----------------------------------------------------------------------------
(* C18 *)

\* C18 as stated, for apply_config: a call that returns a ConfigError leaves
\* every register as it was.
C18_AsStated ==
    [][(ConfigStep /\ call'.api = "apply_config" /\ result' \in ConfigErrors)
          => regs' = regs]_vars

----------------------------------------------------------------------------
(* C19 *)

\* C19 as stated, at 100 kHz and 400 kHz: whenever the product c * 2 *
\* half_cycle exceeds what the timeout register of the variant can hold, the
\* products of 2^32 and more included, the call returns TimeoutInvalid: it
\* neither panics nor succeeds with a wrapped value.
C19_AsStated ==
    (StandardBusCycles /\ DerivedExceedsMax) => result = "TimeoutInvalid"

----------------------------------------------------------------------------
(* C20 *)

\* C20: a configuration call that returns a ConfigError has not reset the
\* peripheral: command queue, FIFOs and pending interrupt flags are as they
\* were before the call; a call that returns Ok has reset them.
C20_NoResetOnConfigError ==
    [][ConfigStep =>
          /\ result' \in ConfigErrors => TransferRegs(regs') = TransferRegs(regs)
          /\ result' = "Ok" =>
                TransferRegs(regs') = TransferRegs(ResetRegs)]_vars

\* apply_config returned a ConfigError on a driver whose command queue and
\* interrupt flags hold what a transfer left
C20_Witness ==
    /\ call.api = "apply_config" /\ result \in ConfigErrors
    /\ regs.comd # <<>> /\ regs.int_raw # {}

----------------------------------------------------------------------------
(* ProgramSpec: the encoders setup_write / setup_read called as
   start_write_operation / start_read_operation call them, and these two
   themselves, each on the registers the call before left *)

\* right-aligned 7-bit addresses: the least, the one of the documentation
\* (0b011_0010) and the greatest
ProgramAddrs == {0, 50, 127}

\* buffer lengths around the limits of the encoders and of the transmit FIFO
ProgramLens == {0, 1, 2, 31, 32, 254, 255, 256}

\* the registers start_*_operation hands to the encoder: FIFOs and command
\* list reset, the Start command enqueued if start
EncoderEntry(v, r, start) ==
    IF start THEN AddCmd(ResetCommandList(ResetFifo(v, r)), CmdStart).regs
    ELSE ResetCommandList(ResetFifo(v, r))

\* one call with its arguments returned o; before: the registers on entry
Programmed(op, addr, len, start, stop, wc, before, o) ==
    /\ call' = [op |-> op, addr |-> addr, len |-> len, start |-> start,
                stop |-> stop, will_continue |-> wc, before |-> before]
    /\ result' = o.err
    /\ regs' = o.regs
    /\ UNCHANGED <<variant, pc, pi, bus, firstErr, hwFault, fut, int_ena, irq, poll>>

EncodeWrite ==
    \E a \in ProgramAddrs, l \in ProgramLens, start \in BOOLEAN :
        Programmed("setup_write", a, l, start, FALSE, FALSE,
                   EncoderEntry(variant, regs, start),
                   SetupWrite(EncoderEntry(variant, regs, start), a, l, start))

EncodeRead ==
    \E a \in ProgramAddrs, l \in ProgramLens, start \in BOOLEAN, wc \in BOOLEAN :
        Programmed("setup_read", a, l, start, FALSE, wc,
                   EncoderEntry(variant, regs, start),
                   SetupRead(EncoderEntry(variant, regs, start), a, l, start, wc))

ProgramWrite ==
    \E a \in ProgramAddrs, l \in ProgramLens, start \in BOOLEAN, stop \in BOOLEAN :
        Programmed("start_write_operation", a, l, start, stop, FALSE,
                   EncoderEntry(variant, regs, start),
                   StartWriteOperation(variant, regs, a, 0, l, start, stop))

ProgramRead ==
    \E a \in ProgramAddrs, l \in ProgramLens \ {0}, start \in BOOLEAN,
       stop \in BOOLEAN, wc \in BOOLEAN :
        Programmed("start_read_operation", a, l, start, stop, wc,
                   EncoderEntry(variant, regs, start),
                   StartReadOperation(variant, regs, a, l, start, stop, wc))

\* the controller has taken the start: ctr.trans_start clears itself
CtrlTakesStart ==
    /\ regs.trans_start
    /\ regs' = [regs EXCEPT !.trans_start = FALSE]
    /\ UNCHANGED <<variant, pc, call, pi, bus, result, firstErr, hwFault, fut,
                   int_ena, irq, poll>>

ProgramNext == EncodeWrite \/ EncodeRead \/ ProgramWrite \/ ProgramRead

\* StartSpec: physical operations programmed one after the other, with the
\* controller taking their starts
StartNext == ProgramWrite \/ ProgramRead \/ CtrlTakesStart

ProgramInit ==
    /\ variant \in Variants
    /\ regs = ResetRegs
    /\ pc = "idle"
    /\ call = [op |-> "none", addr |-> 0, len |-> 0, start |-> FALSE,
               stop |-> FALSE, will_continue |-> FALSE, before |-> ResetRegs]
    /\ pi = 0
    /\ bus = <<>>
    /\ result = "None"
    /\ firstErr = "None"
    /\ hwFault = FALSE
    /\ fut = IdleWait
    /\ int_ena = {}
    /\ irq = IdleIrq
    /\ poll = IdlePoll

ProgramSpec == ProgramInit /\ [][ProgramNext]_vars

StartSpec == ProgramInit /\ [][StartNext]_vars

\* what the last call was
Encoded(op) == call.op = op /\ result = "Ok"
IsWriteCall == call.op \in {"setup_write", "start_write_operation"}
IsReadCall == call.op \in {"setup_read", "start_read_operation"}

\* the commands the encoder added to the queue it was given
EncoderCmds == SubSeq(regs.comd, Len(call.before.comd) + 1, Len(regs.comd))

----------------------------------------------------------------------------
(* C21 *)

\* C21: after a write or read was programmed for the 7-bit address a, the
\* transmit FIFO begins with the address byte, 2 * a for a write and
\* 2 * a + 1 for a read, if and only if the call carried the start flag; what
\* follows it (nothing after an encoder or a read, the first bytes of the
\* payload after a write) holds no further byte put there for the address:
\* the FIFO holds one byte more than payload bytes with start and none more
\* without.
C21_AddressByteOncePerStart ==
    (call.op # "none" /\ result = "Ok") =>
        LET head == IF call.start THEN 1 ELSE 0
            payload == Len(regs.txfifo) - head
        IN  /\ call.start =>
                  /\ regs.txfifo # <<>>
                  /\ regs.txfifo[1] = 2 * call.addr + (IF IsReadCall THEN 1 ELSE 0)
            /\ payload >= 0
            /\ call.op = "start_write_operation" =>
                  /\ payload <= call.len
                  /\ SubSeq(regs.txfifo, head + 1, Len(regs.txfifo))
                        = Slice(0, payload)
            /\ call.op # "start_write_operation" => payload = 0

\* a read for the greatest address and a write for the documented one, both
\* with start
C21_Witness ==
    \/ /\ Encoded("start_read_operation") /\ call.start /\ call.addr = 127
       /\ regs.txfifo = <<255>>
    \/ /\ Encoded("start_write_operation") /\ call.start /\ call.addr = 50
       /\ call.len = 2 /\ regs.txfifo[1] = 100

----------------------------------------------------------------------------
(* C26 *)

ReadCmds == SelectSeq(EncoderCmds, LAMBDA c : c.opcode = "READ")
ReadAckCmds == SelectSeq(EncoderCmds, LAMBDA c : c.opcode = "READ" /\ ~c.ack)
ByteSum(cmds) == SumOver([i \in 1..Len(cmds) |-> cmds[i].byte_num], Len(cmds))

\* the statement of C26 on the Read(ack) command: it covers all but the final
\* byte of the buffer, whatever will_continue is
C26_AsStated ==
    Encoded("setup_read") => ByteSum(ReadAckCmds) = call.len - 1

\* C26: for a non-empty buffer within the length limit setup_read emits, in
\* this order, a one-byte Write with ACK check for the address if start; a
\* Read(ack) covering the whole buffer if will_continue and all but the final
\* byte otherwise, left out when that is no byte; a one-byte Read(nack) if and
\* only if will_continue is false.  No Read command has byte count 0 and the
\* byte counts of the Read commands sum to the buffer length.
C26_ReadEncoding ==
    Encoded("setup_read") =>
        LET acked == IF call.will_continue THEN call.len ELSE call.len - 1
        IN  /\ EncoderCmds =
                  (IF call.start THEN <<Written(1)>> ELSE <<>>)
                  \o (IF acked > 0 THEN <<ReadAcked(acked)>> ELSE <<>>)
                  \o (IF call.will_continue THEN <<>> ELSE <<CmdRead(TRUE, 1)>>)
            /\ \A i \in 1..Len(ReadCmds) : ReadCmds[i].byte_num > 0
            /\ ByteSum(ReadCmds) = call.len

\* a first read of two bytes that another read follows: the address, then
\* one Read(ack) of both bytes
C26_Witness ==
    /\ Encoded("setup_read") /\ call.start /\ call.will_continue /\ call.len = 2
    /\ EncoderCmds = <<Written(1), ReadAcked(2)>>

----------------------------------------------------------------------------
(* C27 *)

\* the statement of C27: one Write command of as many bytes as the data, none
\* for no data, with and without start
C27_AsStated ==
    Encoded("setup_write") =>
        EncoderCmds = IF call.len = 0 THEN <<>> ELSE <<Written(call.len)>>

\* C27: setup_write emits at most one command, a Write with ACK check whose
\* byte count is the data length without start and the data length plus one,
\* for the address byte, with start; only a zero-length write without start
\* emits no command, a zero-length write with start emits a one-byte Write.
C27_WriteEncoding ==
    Encoded("setup_write") =>
        LET write_len == call.len + (IF call.start THEN 1 ELSE 0)
        IN  EncoderCmds = IF write_len = 0 THEN <<>> ELSE <<Written(write_len)>>

\* a first write of no data: the Write command of the address byte alone
C27_Witness ==
    /\ Encoded("setup_write") /\ call.start /\ call.len = 0
    /\ EncoderCmds = <<Written(1)>>
    /\ regs.txfifo = <<AddrByte(call.addr, 0)>>

----------------------------------------------------------------------------
(* C28 *)

----------------------------------------------------------------------------
(* C29 *)

\* C29: setup_read fails with ZeroLengthInvalid on an empty buffer and with
\* FifoExceeded on a buffer of more than 255 bytes with will_continue and of
\* more than 254 bytes without; a buffer in between is accepted; after either
\* failure the command queue and the transmit FIFO are as they were on entry.
C29_ReadLengthLimit ==
    call.op = "setup_read" =>
        LET max_len == IF call.will_continue THEN 255 ELSE 254
        IN  /\ call.len = 0 => result = "ZeroLengthInvalid"
            /\ call.len > max_len => result = "FifoExceeded"
            /\ call.len \in 1..max_len => result = "Ok"
            /\ result # "Ok" => regs = call.before

\* a last read of 255 bytes, which a continued read would accept, was refused
C29_Witness ==
    /\ call.op = "setup_read" /\ regs = call.before
    /\ regs.txfifo = <<>> /\ CountOp(regs.comd, "READ") = 0
    /\ ~call.will_continue /\ call.len = 255 /\ result = "FifoExceeded"

----------------------------------------------------------------------------
(* FaultSpec: one blocking physical operation of one byte, loop by loop, against
   a controller that raises its flags and finishes its commands one by one,
   in any order and in any combination *)

\* the flags check_errors and the waits read
RaisedFlags == {"end_detect", "trans_complete", "time_out", "nack",
                "arbitration_lost"}

FaultInit ==
    /\ PollInit
    /\ poll.hw = "responsive"

\* the controller raises one more flag
CtrlRaise ==
    /\ PollRunning
    /\ \E f \in RaisedFlags \ regs.int_raw :
          regs' = [regs EXCEPT !.int_raw = @ \cup {f}]
    /\ UNCHANGED <<poll, result>>
    /\ UNCHANGED pollRest

\* the controller sets the done bit of one command
CtrlDone ==
    /\ PollRunning
    /\ \E i \in 1..Len(regs.comd) :
          /\ ~regs.comd[i].done
          /\ regs' = [regs EXCEPT !.comd[i].done = TRUE]
    /\ UNCHANGED <<poll, result>>
    /\ UNCHANGED pollRest

\* the controller has seen the target's response
CtrlRespond ==
    /\ PollRunning /\ ~regs.resp_rec
    /\ regs' = [regs EXCEPT !.resp_rec = TRUE]
    /\ UNCHANGED <<poll, result>>
    /\ UNCHANGED pollRest

FaultNext == PollDriver \/ CtrlRaise \/ CtrlDone \/ CtrlRespond \/ HwRxByte \/ HwWatermark

FaultSpec == FaultInit /\ [][FaultNext]_vars

\* the loop the driver is in begins its round with check_errors
ChecksErrors ==
    \/ poll.pc \in {"tx_wm1", "rx", "rx_wait", "wait"}
    \/ poll.pc = "tx_wm2" /\ "txfifo_wm" \notin regs.int_raw

\* the driver has gone round its loop
DriverStep == poll' # poll

\* the registers after reset()
IsReset(r) == r.comd = <<>> /\ r.txfifo = <<>> /\ r.rxfifo = <<>> /\ r.int_raw = {}

----------------------------------------------------------------------------
(* C22 *)

\* the errors check_errors may return on the flags f
Classified(f, resp_rec) ==
    IF "time_out" \in f THEN {"Timeout"}
    ELSE IF "nack" \in f
         THEN {AckFailed(reason) : reason \in {"Address", "Data", "Unknown"}}
    ELSE IF "arbitration_lost" \in f THEN {"ArbitrationLost"}
    ELSE IF variant # "esp32" /\ "trans_complete" \in f /\ ~resp_rec
         THEN {AckFailed("Data")}
    ELSE {}

\* C22: whatever combination of flags is raised when a round of a driver loop
\* runs check_errors, a raised bus timeout ends the operation with Timeout;
\* otherwise a raised NACK with AcknowledgeCheckFailed(reason); otherwise a
\* raised arbitration loss with ArbitrationLost; otherwise, on a variant other
\* than ESP32, transmission-complete without a response received with
\* AcknowledgeCheckFailed(Data); in these cases the peripheral is reset.  With
\* none of them check_errors returns Ok and resets nothing: the round goes on
\* to its own test, the command slots and the started transmission are kept
\* unless the operation returns an error of its own, and a return of Ok
\* leaves the registers as they were.
C22_FaultPriority ==
    [][(ChecksErrors /\ DriverStep) =>
         LET fault == Classified(regs.int_raw, regs.resp_rec)
         IN  IF fault # {}
             THEN poll'.pc = "returned" /\ result' \in fault /\ IsReset(regs')
             ELSE /\ poll'.pc = "returned" =>
                        result' \in {"Ok", "ExecutionIncomplete", "Timeout"}
                  /\ poll'.pc # "returned" =>
                        /\ regs'.comd = regs.comd
                        /\ regs'.trans_start = regs.trans_start
                        /\ regs'.int_raw \cup {"txfifo_wm"}
                              = regs.int_raw \cup {"txfifo_wm"}
                  /\ (poll'.pc = "returned" /\ result' = "Ok") => regs' = regs
      ]_vars

\* bus timeout, NACK and arbitration loss were raised together and the
\* operation returned Timeout after a reset
C22_Witness ==
    /\ poll.pc = "returned" /\ result = "Timeout"
    /\ {"time_out", "nack", "arbitration_lost"} \subseteq poll.seen
    /\ IsReset(regs)

----------------------------------------------------------------------------
(* C23 *)

InWait == poll.pc \in {"rx_wait", "wait"}

\* the wait has seen its completion signal: it returns what
\* check_all_commands_done returns, or it goes on to take the bytes read
PassesCompletion ==
    \/ poll'.pc = "returned" /\ result' \in {"Ok", "ExecutionIncomplete"}
    \/ poll.pc = "rx_wait" /\ poll'.pc = "wait"

Completion == {"trans_complete", "end_detect"}

----------------------------------------------------------------------------
(* C24 *)

\* an occupied slot that is not an End and not done (the slots after the
\* occupied ones are empty)
Unfinished(comd) ==
    \E i \in 1..Len(comd) : comd[i].opcode # "END" /\ ~comd[i].done

\* C24: when a round of a wait finds its completion signal and no fault, the
\* wait ends with ExecutionIncomplete if and only if some occupied command
\* slot holds no End opcode and has its done flag clear; otherwise, whatever
\* the done flag of an End slot and however many slots are empty, the last
\* wait of the operation returns Ok (the additional wait before the FIFO is
\* read goes on to the reading).
C24_IncompleteIffUnfinishedSlot ==
    [][(InWait /\ DriverStep /\ PassesCompletion) =>
         /\ (result' = "ExecutionIncomplete" /\ poll'.pc = "returned")
               <=> Unfinished(regs.comd)
         /\ ~Unfinished(regs.comd) =>
               IF poll.pc = "wait" THEN poll'.pc = "returned" /\ result' = "Ok"
               ELSE poll'.pc = "wait"
      ]_vars

\* ExecutionIncomplete was returned on an unfinished Write slot
C24_Witness ==
    /\ poll.pc = "returned" /\ result = "ExecutionIncomplete"
    /\ \E i \in 1..Len(poll.slots) :
          poll.slots[i].opcode = "WRITE" /\ ~poll.slots[i].done
    /\ poll.seen \cap Completion # {}

----------------------------------------------------------------------------
(* C30 *)

\* C30: in every state the driver and the controller can reach (before an
\* operation, in each of its loops with any flags raised and any commands
\* done, after a fault) reset() leaves every command slot empty, both FIFOs
\* empty and no flag pending, and a second reset() right after it changes no
\* register.
C30_ResetIdempotent ==
    /\ IsReset(Reset(variant, regs))
    /\ Reset(variant, Reset(variant, regs)) = Reset(variant, regs)

\* an operation that a fault ended in mid-transfer, with commands in the
\* slots and two flags pending: check_errors has reset the peripheral and the
\* recovery of the public call has reset it again
C30_Witness ==
    /\ poll.pc = "returned" /\ result = "ArbitrationLost"
    /\ poll.slots # <<>> /\ {"arbitration_lost", "end_detect"} \subseteq poll.seen
    /\ IsReset(regs)

----------------------------------------------------------------------------
(* StreamSpec: one write operation that ends with Stop, byte by byte: the
   driver fills the transmit FIFO and streams the rest, the controller sends
   the bytes and shows the watermark.  poll.pushed keeps every byte the FIFO
   has accepted, poll.filled the index fill_tx_fifo returned. *)

\* payload lengths around the depth of the FIFO
StreamLens == {0, 1, 2, 31, 32, 33, 36, 255}

\* txfifo_wm_thrhd
TxFifoWatermark == 8

StreamInit ==
    /\ variant \in Variants
    /\ regs = ResetRegs
    /\ pc = "idle"
    /\ call = NoCall
    /\ pi = 0
    /\ bus = <<>>
    /\ result = "None"
    /\ firstErr = "None"
    /\ hwFault = FALSE
    /\ fut = IdleWait
    /\ int_ena = {}
    /\ irq = IdleIrq
    /\ poll \in {[pc |-> "call", len |-> l, start |-> st, index |-> 0,
                  filled |-> 0, pushed |-> <<>>] :
                    l \in StreamLens, st \in BOOLEAN}

\* the FIFO has room for the byte written to it
Accepts(r) == Len(r.txfifo) < TxFifoDepth

\* write_fifo on the hardware FIFO: a byte written to a full FIFO is lost and
\* raises txfifo_ovf
WriteFifoHw(r, byte) ==
    IF Accepts(r) THEN WriteFifo(r, byte)
    ELSE [r EXCEPT !.int_raw = @ \cup {"txfifo_ovf"}]

PushedAfter(r, byte) == IF Accepts(r) THEN Append(poll.pushed, byte) ELSE poll.pushed

\* an index that stays on the byte after the lost one
FillKeepIndex(index, ovf) == index

\* fill_tx_fifo after its loop: the index steps back onto the lost byte
FillBackOff(index, ovf) == IF ovf THEN index - 1 ELSE index

StreamReturns(res, r) ==
    /\ poll' = [poll EXCEPT !.pc = "returned"]
    /\ result' = res
    /\ regs' = r

\* write_operation_blocking up to fill_tx_fifo: the commands and the address
StreamStart ==
    /\ poll.pc = "call"
    /\ With(Try(OkR(ResetCommandList(ResetFifo(variant, ClearAllInterrupts(regs)))),
            LAMBDA r0 : Try(IF poll.start THEN AddCmd(r0, CmdStart) ELSE OkR(r0),
            LAMBDA a  : Try(SetupWrite(a, 50, poll.len, poll.start),
            LAMBDA b  : AddCmd(b, CmdStop)))),
       LAMBDA s :
         IF s.err # "Ok" THEN StreamReturns(s.err, s.regs)
         ELSE /\ poll' = [poll EXCEPT !.pc = "fill", !.pushed = s.regs.txfifo]
              /\ regs' = s.regs
              /\ result' = result)
    /\ UNCHANGED pollRest

\* fill_tx_fifo, cfg(any(esp32, esp32s2)), and start_transmission
StreamFillLimited ==
    /\ poll.pc = "fill" /\ FifoLimited(variant)
    /\ IF poll.len > FillTxFifoLimit
       THEN StreamReturns("FifoExceeded", regs)
       ELSE /\ poll' = [poll EXCEPT !.pc = "remaining", !.index = poll.len,
                                    !.filled = poll.len,
                                    !.pushed = @ \o Slice(0, poll.len)]
            /\ regs' = StartTransmission(
                          [regs EXCEPT !.txfifo = @ \o Slice(0, poll.len)])
            /\ result' = result
    /\ UNCHANGED pollRest

\* fill_tx_fifo on the other variants: one round of its loop, or what follows
\* the loop, and start_transmission
StreamFill ==
    /\ poll.pc = "fill" /\ ~FifoLimited(variant)
    /\ IF poll.index < poll.len /\ "txfifo_ovf" \notin regs.int_raw
       THEN /\ regs' = WriteFifoHw(regs, BufByte(poll.index))
            /\ poll' = [poll EXCEPT !.index = @ + 1,
                                    !.pushed = PushedAfter(regs, BufByte(poll.index))]
       ELSE /\ regs' = StartTransmission(
                          [regs EXCEPT !.int_raw = @ \ {"txfifo_ovf"}])
            /\ poll' = [poll EXCEPT
                          !.pc = "tx_wm1",
                          !.index = FillBackOff(@, "txfifo_ovf" \in regs.int_raw),
                          !.filled = FillBackOff(poll.index,
                                                 "txfifo_ovf" \in regs.int_raw)]
    /\ result' = result
    /\ UNCHANGED pollRest

\* write_remaining_tx_fifo_blocking, cfg(any(esp32, esp32s2)): nothing is left
StreamRemainingLimited ==
    /\ poll.pc = "remaining"
    /\ IF poll.index >= poll.len
       THEN StreamReturns("Ok", regs)
       ELSE /\ poll' = [poll EXCEPT !.index = poll.len,
                                    !.pushed = @ \o Slice(0, poll.len)]
            /\ regs' = [regs EXCEPT !.txfifo = @ \o Slice(0, poll.len)]
            /\ result' = result
    /\ UNCHANGED pollRest

\* write_remaining_tx_fifo_blocking on the other variants: the first wait for
\* the watermark and its clearing
StreamTxWm1 ==
    /\ poll.pc = "tx_wm1"
    /\ "txfifo_wm" \in regs.int_raw
    /\ regs' = [regs EXCEPT !.int_raw = @ \ {"txfifo_wm"}]
    /\ poll' = [poll EXCEPT !.pc = "tx_wm2"]
    /\ result' = result
    /\ UNCHANGED pollRest

\* the second wait for the watermark, then the end of the loop or one byte
StreamTxWm2 ==
    /\ poll.pc = "tx_wm2"
    /\ "txfifo_wm" \in regs.int_raw
    /\ IF poll.index >= poll.len
       THEN StreamReturns("Ok", regs)
       ELSE /\ regs' = WriteFifoHw(regs, BufByte(poll.index))
            /\ poll' = [poll EXCEPT !.pc = "tx_wm1", !.index = @ + 1,
                                    !.pushed = PushedAfter(regs, BufByte(poll.index))]
            /\ result' = result
    /\ UNCHANGED pollRest

\* the controller takes the next byte out of the FIFO and sends it
CtrlSend ==
    /\ poll.pc \in {"remaining", "tx_wm1", "tx_wm2"}
    /\ regs.trans_start /\ regs.txfifo # <<>>
    /\ regs' = [regs EXCEPT !.txfifo = Tail(@), !.txfifo_raddr = @ + 1]
    /\ UNCHANGED <<poll, result>>
    /\ UNCHANGED pollRest

\* the FIFO level is below the watermark
CtrlWatermark ==
    /\ poll.pc \in {"tx_wm1", "tx_wm2"}
    /\ Len(regs.txfifo) < TxFifoWatermark
    /\ "txfifo_wm" \notin regs.int_raw
    /\ regs' = [regs EXCEPT !.int_raw = @ \cup {"txfifo_wm"}]
    /\ UNCHANGED <<poll, result>>
    /\ UNCHANGED pollRest

StreamNext ==
    \/ StreamStart \/ StreamFillLimited \/ StreamFill \/ StreamRemainingLimited
    \/ StreamTxWm1 \/ StreamTxWm2 \/ CtrlSend \/ CtrlWatermark

StreamSpec == StreamInit /\ [][StreamNext]_vars

----------------------------------------------------------------------------
(* C25 *)

\* what a write of the payload has to put into the FIFO
StreamHead == IF poll.start THEN <<AddrByte(50, 0)>> ELSE <<>>

WriteCmds == SelectSeq(regs.comd, LAMBDA c : c.opcode = "WRITE")

\* C25: when fill_tx_fifo has returned, the FIFO has accepted the address
\* byte (with start) and the payload bytes before the index it returned, in
\* order and each once; from then on the bytes accepted are the address byte
\* and the payload bytes before the streaming writer's index, so that no byte
\* is lost or pushed twice; a write operation that returns Ok has pushed the
\* address byte followed by the whole payload, as many bytes as the byte count
\* of its Write command (none if there is no Write command).
C25_EveryByteOnce ==
    /\ poll.pc \in {"remaining", "tx_wm1", "tx_wm2", "returned"} /\ result \in {"None", "Ok"}
          => /\ poll.filled <= poll.index /\ poll.index <= poll.len
             /\ poll.pushed = StreamHead \o Slice(0, poll.index)
    /\ (poll.pc = "returned" /\ result = "Ok")
          => /\ poll.pushed = StreamHead \o Slice(0, poll.len)
             /\ Len(poll.pushed) = ByteSum(WriteCmds)

\* a first write of 33 bytes returned Ok: the FIFO overflowed in fill_tx_fifo,
\* which returned 31, and the streaming writer pushed the last two bytes
C25_Witness ==
    /\ poll.pc = "returned" /\ result = "Ok"
    /\ poll.start /\ poll.len = 33 /\ poll.filled = 31
    /\ Len(poll.pushed) = 34

----------------------------------------------------------------------------
(* C31 *)

\* clkm_div of the call on the newer variants, from the 32-bit product
\* bus_freq * 1024
CallDivider ==
    DivInt(SourceClk(variant), Mul(FromInt(call.frequency), FromInt(1024)).val) + 1

\* half_cycle of the call at any frequency
CallHalfCycleWide ==
    IF Newer(variant)
    THEN HalfCycle(SourceClk(variant) \div CallDivider, call.frequency)
    ELSE HalfCycle(SourceClk(variant), call.frequency)

\* scl_wait_high_period of the call as 32-bit arithmetic computes it
CallWaitHigh ==
    IF variant = "esp32s2"
    THEN Sub(FromInt(CallHalfCycleWide), FromInt(CallHalfCycleWide \div 2 + 2)).val
    ELSE NewerWaitHigh(call.frequency, CallHalfCycleWide).val

----------------------------------------------------------------------------
(* C32 *)

\* C32 as stated: on esp32s2, whenever the timing formulas do not underflow,
\* the values an accepted call has programmed satisfy scl_wait_high <
\* scl_high and scl_wait_high < sda_sample <= scl_high.
C32_AsStated ==
    (ConfigCall /\ variant = "esp32s2" /\ result = "Ok"
        /\ ~S2Underflows(CallHalfCycleWide)) =>
        /\ regs.scl_wait_high_period < regs.scl_high_period
        /\ regs.scl_wait_high_period < regs.sda_sample
        /\ regs.sda_sample <= regs.scl_high_period

----------------------------------------------------------------------------
(* C40 *)

\* a subtraction, addition or multiplication of the call's timing computation
\* leaves the range of u32
CallTimingWraps ==
    IF variant = "esp32" THEN CallHalfCycleWide < 13
    ELSE IF variant = "esp32s2" THEN S2Underflows(CallHalfCycleWide)
    ELSE \/ Mul(FromInt(call.frequency), FromInt(1024)).ovf
         \/ NewerOverflows(CallHalfCycleWide,
                           NewerWaitHigh(call.frequency, CallHalfCycleWide))

\* C40 as stated, with the timeout policy Maximum (no timeout product is
\* computed): for a bus frequency from 1 Hz up to the source clock the call
\* does not panic, and when it returns Ok no timing value has wrapped.
C40_AsStated ==
    (ConfigCall /\ call.frequency \in 1..SourceClk(variant)
        /\ call.timeout.kind = "Maximum") =>
        /\ result # "Panic"
        /\ result = "Ok" => ~CallTimingWraps

----------------------------------------------------------------------------
(* C39 *)

\* C39: an apply_config that returns a ConfigError leaves the stored Config
\* as it was, and one that returns Ok has stored the Config it was given;
\* the setup of the recovery after a failed transfer is given the stored
\* Config, returns Ok and leaves the registers as setup programs them for
\* that Config after power-on.
C39_RecoveryReappliesConfig ==
    [][/\ (ConfigStep /\ call'.api = "apply_config") =>
            /\ result' \in ConfigErrors => call'.config = call.config
            /\ result' = "Ok" =>
                  call'.config = [frequency |-> call'.frequency,
                                  timeout |-> call'.timeout]
       /\ (call'.api = "transfer" /\ result' # "Ok") =>
            /\ call'.recovered = "Ok"
            /\ call'.config = call.config
            /\ regs' = Setup(variant, PowerOnRegs, call.checks, call.config).regs
      ]_vars

\* a transfer failed and recovered after an apply_config had returned a
\* ConfigError for another Config than the stored one
C39_Witness ==
    /\ call.api = "transfer" /\ call.recovered = "Ok" /\ result \notin {"Ok", "None"}
    /\ call.config # [frequency |-> call.frequency, timeout |-> call.timeout]
    /\ call.config # UnsetConfig

----------------------------------------------------------------------------
(* C34 *)

\* C34 as stated: the check of a poll of the future reports what
\* Driver::check_errors reports for the same flags: it resolves the future
\* with that error, or goes on if that is Ok.
C34_AsStated ==
    [][(fut.pc = "check_error" /\ fut'.pc # fut.pc) =>
          IF CheckErrors(variant, regs) # "Ok"
          THEN fut'.pc = "resolved" /\ fut'.res = CheckErrors(variant, regs)
          ELSE fut'.pc = "event_bit"]_vars

----------------------------------------------------------------------------
(* C38 *)

\* C38: a round of the polled wait that finds a fault flag (bus timeout,
\* NACK, arbitration loss) raised together with a completion flag returns an
\* error of the fault and not Ok; an operation that returns Ok had no fault
\* flag raised in its last round.
C38_FaultBeforeCompletion ==
    [][(InWait /\ DriverStep) =>
         /\ (regs.int_raw \cap FaultFlags # {} /\ regs.int_raw \cap Completion # {})
               => /\ poll'.pc = "returned"
                  /\ result' \in Classified(regs.int_raw \cap FaultFlags, TRUE)
         /\ (poll'.pc = "returned" /\ result' = "Ok")
               => regs.int_raw \cap FaultFlags = {}
      ]_vars

\* the wait returned an acknowledge failure although transmission-complete
\* and end-detect were raised with the NACK
C38_Witness ==
    /\ poll.pc = "returned"
    /\ result \in {AckFailed(reason) : reason \in {"Address", "Data", "Unknown"}}
    /\ {"nack", "trans_complete", "end_detect"} \subseteq poll.seen
    /\ "time_out" \notin poll.seen

----------------------------------------------------------------------------
(* C33 *)

\* C33 as stated: whatever the lengths of its buffers, no public write, read,
\* write_read or transaction returns FifoExceeded.
C33_AsStated ==
    pc = "done" => result # "FifoExceeded"

----------------------------------------------------------------------------
(* C35 *)

\* the command list the physical operation req programs when run in mode
ProgrammedComd(mode, req) ==
    Operation(variant, mode, ResetRegs, call.addr, req, "complete").prog.comd

\* C35: for the address and operation list of a transaction call, the
\* blocking and the async sequencer with their chunking loops make the same
\* sequence of physical operations (kind, slice, start, stop, will_continue),
\* the one the call goes on to run, and each of them programs the same
\* command list in either mode.
C35_SequencersAgree ==
    (call.api = "transaction" /\ pc = "run" /\ pi = 0) =>
        /\ TransactionImpl(variant, call.ops) = TransactionImplAsync(variant, call.ops)
        /\ call.plan = TransactionImplAsync(variant, call.ops)
        /\ \A i \in 1..Len(call.plan) :
              ProgrammedComd("blocking", call.plan[i])
                  = ProgrammedComd("async", call.plan[i])

\* an async transaction of a chunked write, an empty read and a chunked read
\* is about to run its four physical operations
C35_Witness ==
    /\ call.api = "transaction" /\ call.mode = "async" /\ pc = "run" /\ pi = 0
    /\ Len(call.ops) = 3 /\ Len(call.plan) = 4
    /\ call.ops[1].kind = "Write" /\ call.ops[1].len > I2C_CHUNK_SIZE(variant)
    /\ call.ops[2] = Op("Read", 0)
    /\ call.ops[3].kind = "Read" /\ call.ops[3].len > I2C_CHUNK_SIZE(variant)

----------------------------------------------------------------------------
(* C36 *)

\* the place of a command in [Start]? [Write]? [Read(ack)]? [Read(nack)]?
\* (Stop | End)
ShapeRank(command) ==
    CASE command.opcode = "RSTART" -> 1
      [] command.opcode = "WRITE" -> 2
      [] command.opcode = "READ" /\ ~command.ack -> 3
      [] command.opcode = "READ" /\ command.ack -> 4
      [] OTHER -> 5

\* comd is [Start]? [Write]? [Read(ack)]? [Read(nack)]? (Stop | End)
WellShaped(comd) ==
    /\ comd # <<>>
    /\ comd[Len(comd)].opcode \in {"STOP", "END"}
    /\ \A i \in 1..(Len(comd) - 1) : ShapeRank(comd[i]) < ShapeRank(comd[i + 1])

\* this step is a call of start_write_operation or start_read_operation
ProgramStep ==
    /\ call'.op \in {"start_write_operation", "start_read_operation"}
    /\ ~(regs.trans_start /\ ~regs'.trans_start)

\* C36: a start_write_operation or start_read_operation that returns Ok has
\* set the transmission-start bit on a command list that holds nothing of the
\* operation before and has the shape [Start]? [Write]? [Read(ack)]?
\* [Read(nack)]? (Stop | End), ending with Stop if stop and with End
\* otherwise and beginning with Start if and only if start, on an empty
\* receive FIFO and on a transmit FIFO that holds nothing but this
\* operation's bytes; one that returns an error has not set the bit.
C36_StartAfterProgramming ==
    [][ProgramStep =>
         /\ result' = "Ok" =>
               /\ regs'.trans_start
               /\ WellShaped(regs'.comd)
               /\ regs'.comd[Len(regs'.comd)] = StopOrEnd(call'.stop)
               /\ (regs'.comd[1] = CmdStart) <=> call'.start
               /\ regs'.rxfifo = <<>>
               /\ Len(regs'.txfifo) <= call'.len + (IF call'.start THEN 1 ELSE 0)
         /\ result' # "Ok" => regs'.trans_start = regs.trans_start
      ]_vars

\* a write of 32 bytes failed in fill_tx_fifo after its three commands were
\* programmed, over the command list of a read, and the bit is clear
C36_Witness ==
    /\ call.op = "start_write_operation" /\ call.len = 32 /\ call.start
    /\ result = "FifoExceeded"
    /\ Len(regs.comd) = 3 /\ WellShaped(regs.comd)
    /\ ~regs.trans_start

----------------------------------------------------------------------------
(* C37 *)

\* C37: no public call returns CommandNumberExceeded or ZeroLengthInvalid,
\* and no physical operation fails with one of them on the way; every
\* physical operation that was started has programmed at most 5 commands of
\* the 8 the queue holds, and none of them was a read of no bytes.
C37_EncoderErrorsUnreachable ==
    /\ result \notin {"CommandNumberExceeded", "ZeroLengthInvalid"}
    /\ firstErr \notin {"CommandNumberExceeded", "ZeroLengthInvalid"}
    /\ \A i \in 1..Len(bus) :
          /\ Len(bus[i].comd) <= 5
          /\ 5 < CmdSlots
          /\ bus[i].req.kind = "Read" => bus[i].req.len > 0

\* a read of two bytes has run as one physical operation of five commands,
\* Start, Write, Read(ack), Read(nack) and Stop, and returned Ok
C37_Witness ==
    /\ ReturnedOk /\ call.api = "read" /\ call.ops[1].len = 2
    /\ Len(bus) = 1
    /\ Len(bus[1].comd) = 5

====
